---- MODULE Spec2Model ----
(***************************************************************************)
(* StarSmileBot: a Telegram <-> Pyrus CRM bridge.                          *)
(*                                                                         *)
(* The parts of the program are modelled each with its own specification  *)
(* over the shared state:                                                  *)
(*   SpecApi      - pyrus_api_service.py: TokenManager and api_request     *)
(*   SpecWebhook  - server/main.py: pyrus_webhook, webhook_queue,          *)
(*                  webhook_worker and process_webhook                     *)
(*   SpecRunning  - server/main.py: the queue and the worker under weak    *)
(*                  fairness of the worker's steps                         *)
(*   SpecShutdown - server/main.py: lifespan and the cancellation of the   *)
(*                  worker                                                 *)
(*   SpecForward  - server/main.py and utils.py: process_webhook on one    *)
(*                  event, with its fields, attachments and sends          *)
(*   SpecSig      - server/main.py: verify_signature on its inputs         *)
(*   SpecMedia    - bot/process_message.py: process_media_group            *)
(*   SpecSingle   - bot/process_message.py: process_single_comment         *)
(*   SpecTransfer - both transfer paths of bot/process_message.py          *)
(*   SpecFlush    - bot/process_message.py: the flush of a media group     *)
(*                  with captions, and the comment it sends                *)
(*   SpecHandlers - bot/handlers.py: the handlers of start_router, the     *)
(*                  per-user locks and RegistrationState                   *)
(* All coroutines run on one asyncio event loop: a step of the model is    *)
(* the code a coroutine runs between two suspension points (awaits that    *)
(* really wait: network I/O, asyncio.sleep, a held lock, a full or empty   *)
(* queue).                                                                 *)
(***************************************************************************)
EXTENDS Integers, Sequences, FiniteSets, TLC

\* ------------------------------------------------------------------ bounds
NClients  == 2    \* concurrent callers of api_request outside the worker
MaxFaults == 3    \* failure answers the two remote services may give in a run
MaxTok    == 3    \* tokens the auth endpoint hands out in a run
MaxReq    == 3    \* POST /webhook requests in a run
MaxMsgs   == 3    \* chat messages handed to process_media_group in a run
NHandlers == 2    \* chat updates the dispatcher handles at the same time
QueueMax  == 2    \* capacity of webhook_queue in the model (500 in the program)
DigestLen == 2    \* hex digits of a digest in the model (40 in the program)
MaxAtt    == 3    \* attachments of the last comment of a webhook event

\* ------------------------------------------------- pyrus_api_service.py
\* stop_after_attempt(3) of the three @retry decorators
TokenAttempts     == 3
RefreshAttempts   == 3
ApiAttempts_four  == 3 + 1
ApiAttempts       == 3

Clients == 1..NClients
WSlot   == NClients + 1          \* the api call slot of the webhook worker
Slots   == 1..(NClients + 1)

\* "shared" is the module-level singleton of get_token_manager();
\* "fresh" is the instance process_webhook constructs with TokenManager().
TMs == {"shared", "fresh"}

\* 0 stands for a transport failure (no response at all)
Statuses == {200, 401, 403, 500, 0}
\* the answers to POST /auth that make _refresh_token raise
AuthFailures == Statuses \ {200}

VARIABLES
  token,     \* [TMs -> 0..MaxTok]  TokenManager._token, 0 is None
  lock,      \* [TMs -> Slots \cup {0}]  holder of TokenManager._lock, 0 is free
  call,      \* [Slots -> record]  the running api_request / get_token calls
  issued,    \* number of tokens the auth endpoint has handed out (token ids)
  faults,    \* failure answers given so far
  authReqs,  \* [TMs -> Nat]  POST /auth requests sent, per TokenManager
  hist,      \* history: what has happened so far
  \* server/main.py
  req,            \* [Reqs -> record]  the pyrus_webhook request handlers
  webhook_queue,  \* sequence of queued events [id, kind], oldest first
  worker,         \* [pc, ev]  position of webhook_worker and its event
  count_triggered,
  enq,            \* history: ids of the events in the order they were put
  deq,            \* history: ids of the events in the order they were got
  inproc,         \* history: ids of the events process_webhook is running on
  outcome,        \* history: [Reqs -> how process_webhook ended for the event]
  chat,           \* history: ids of the events with a call to the chat platform
  lifespan        \* "running", "awaiting" (worker_task cancelled), "exited"

  ,
  \* bot/process_message.py
  media_groups_data,  \* [Keys -> sequence of messages]  << >> is "no entry"
  processing_tasks,   \* set of keys
  tasks,              \* the process_group tasks that have not ended
  nmsg,               \* messages handed to process_media_group so far
  arrived,            \* history: [Keys -> messages of the burst going on,
                      \*           each with the age of the burst when it came]
  age,                \* history: [Keys -> time since the burst's first message]
  flushes             \* history: the buffers the timers took, in order

  ,
  \* a call of verify_signature: its arguments, its result, and whether it
  \* computed the HMAC
  sigcheck,
  fwd,       \* process_webhook on one event: position, downloads, calls made
  singles,            \* the process_single_comment calls that have not ended
  commented           \* history: ids of the messages whose comment the CRM took

  ,
  \* bot/handlers.py
  handler,     \* [Handlers -> record]  the running message handlers
  fsm,         \* [Users -> the RegistrationState of the user, "none" is None]
  user_locks,  \* [Users -> lock id]  _user_locks, 0 is "no entry"
  held,        \* [Users -> [LockIds -> handler]]  holder of the lock, 0 is free
  reclaimed    \* history: an entry of _user_locks has been reclaimed

apiVars == <<token, lock, call, issued, faults, authReqs, hist>>
hookVars == <<req, webhook_queue, worker, count_triggered, enq, deq, inproc, outcome, chat,
              lifespan>>
mediaVars == <<media_groups_data, processing_tasks, tasks, nmsg, arrived, age, flushes>>
handlerVars == <<handler, fsm, user_locks, held, reclaimed>>
botVars == <<sigcheck, fwd, singles, commented, handlerVars>>
vars == <<apiVars, hookVars, mediaVars, botVars>>

Reqs == 1..MaxReq

Call0 ==
  [pc |-> "idle", mode |-> "api", tm |-> "shared",
   att |-> 1, gt |-> 1, rf |-> 1,
   tok |-> 0, sends |-> 0, res |-> "none",
   posted |-> FALSE, floor |-> 0, nxt |-> FALSE, t401 |-> 0]

\* authFail: a POST /auth has failed;  inval: a 401 has invalidated the token;
\* last401: tokens issued when the latest 401 came;  pend401: no get_token
\* call has started since the latest 401;  coalesced: a get_token call that
\* waited for the lock has returned the token a concurrent call fetched;
\* reused: the first get_token call after a 401 has returned a token without
\* sending a POST /auth itself
Hist0 ==
  [authFail |-> FALSE, inval |-> FALSE, last401 |-> 0, pend401 |-> FALSE,
   coalesced |-> FALSE, reused |-> FALSE]

Req0 == [pc |-> "new", status |-> 0, kind |-> "none", full |-> FALSE]

InitHook ==
  /\ req = [h \in Reqs |-> Req0]
  /\ webhook_queue = << >>
  /\ worker = [pc |-> "get", ev |-> 0]
  /\ count_triggered = 1
  /\ enq = << >>
  /\ deq = << >>
  /\ inproc = {}
  /\ outcome = [h \in Reqs |-> "none"]
  /\ chat = {}
  /\ lifespan = "running"

InitApi ==
  /\ token = [m \in TMs |-> 0]
  /\ lock = [m \in TMs |-> 0]
  /\ call = [c \in Slots |-> Call0]
  /\ issued = 0
  /\ faults = 0
  /\ authReqs = [m \in TMs |-> 0]
  /\ hist = Hist0

\* TokenManager.invalidate
invalidate_keep(t) == t
invalidate(t) == 0

\* retry_on_exception: a 403 status error is not retried, everything else is
retry_on_exception_all(status) == TRUE
retry_on_exception(status) == status # 403

\* asyncio.Lock of the TokenManager m can be taken
LockFree_always(m) == TRUE
LockFree(m) == lock[m] = 0

\* the second `if self._token` of get_token, under the lock
CachedUnderLock(m) == token[m] # 0

\* get_token returns t: api_request goes on to send its request with t
\* (gt, rf, posted, floor and nxt describe a running get_token call only;
\* t401 is the token the previous attempt of the call carried when that
\* attempt was answered 401, and 0 otherwise)
GetTokenOver(r) ==
  [r EXCEPT !.gt = 1, !.rf = 1, !.posted = FALSE, !.floor = 0, !.nxt = FALSE]

Return(r0, t) ==
  LET r == GetTokenOver(r0)
  IN IF r.mode = "tok"
     THEN [r EXCEPT !.pc = "done", !.tok = t, !.res = "ok"]
     ELSE [r EXCEPT !.pc = "req_inflight", !.tok = t, !.sends = @ + 1]

\* what the history records when get_token returns to a call in state r
Returning(h, r, waitedForLock) ==
  [h EXCEPT !.coalesced = @ \/ (waitedForLock /\ r.tm = "shared"),
            !.reused = @ \/ (r.nxt /\ ~r.posted)]

\* an attempt of api_request raised: tenacity asks retry_on_exception, then
\* stop_after_attempt
ApiRaise(r, status) ==
  IF ~retry_on_exception(status)
  THEN [GetTokenOver(r) EXCEPT !.pc = "failed", !.res = "http_error", !.tok = 0,
                               !.t401 = 0]
  ELSE IF r.att >= ApiAttempts
  THEN [GetTokenOver(r) EXCEPT !.pc = "failed", !.res = "retry_error", !.tok = 0,
                               !.t401 = 0]
  ELSE [GetTokenOver(r) EXCEPT !.pc = "gt_start", !.att = @ + 1, !.tok = 0,
                               !.t401 = IF status = 401 THEN r.tok ELSE 0]

\* an attempt of get_token raised (the lock is released by `async with`)
GetTokenRaise(r) ==
  IF r.gt < TokenAttempts
  THEN [r EXCEPT !.pc = "gt_start", !.gt = @ + 1, !.rf = 1]
  ELSE IF r.mode = "tok"
  THEN [GetTokenOver(r) EXCEPT !.pc = "failed", !.res = "retry_error"]
  ELSE ApiRaise(r, 0)

\* _refresh_token sends POST /auth
Post(r) == [r EXCEPT !.pc = "rf_inflight", !.posted = TRUE]

\* a client coroutine calls api_request
client_call(c) ==
  /\ c \in Clients
  /\ call[c].pc = "idle"
  /\ call' = [call EXCEPT ![c] = [Call0 EXCEPT !.pc = "gt_start"]]
  /\ UNCHANGED <<token, lock, issued, faults, authReqs, hist>>
  /\ UNCHANGED <<hookVars, mediaVars, botVars>>

\* get_token up to its first suspension: the unlocked check, then the lock
get_token_enter(c) ==
  /\ call[c].pc = "gt_start"
  /\ LET r0 == call[c]
         m == r0.tm
         first == r0.gt = 1
         r == IF first
              THEN [r0 EXCEPT !.posted = FALSE,
                              !.floor = IF m = "shared" THEN hist.last401 ELSE 0,
                              !.nxt = (m = "shared" /\ hist.pend401)]
              ELSE r0
         h == IF first /\ m = "shared"
              THEN [hist EXCEPT !.pend401 = FALSE] ELSE hist
     IN IF token[m] # 0
        THEN /\ call' = [call EXCEPT ![c] = Return(r, token[m])]
             /\ hist' = Returning(h, r, FALSE)
             /\ UNCHANGED <<lock, authReqs>>
        ELSE IF LockFree(m)
        THEN /\ lock' = [lock EXCEPT ![m] = c]
             /\ call' = [call EXCEPT ![c] = Post(r)]
             /\ authReqs' = [authReqs EXCEPT ![m] = @ + 1]
             /\ hist' = h
        ELSE /\ call' = [call EXCEPT ![c] = [r EXCEPT !.pc = "gt_wait"]]
             /\ hist' = h
             /\ UNCHANGED <<lock, authReqs>>
  /\ UNCHANGED <<token, issued, faults>>
  /\ UNCHANGED <<hookVars, mediaVars, botVars>>

\* a waiter gets the lock and checks the cache again
get_token_acquire(c) ==
  /\ call[c].pc = "gt_wait"
  /\ LET r == call[c]
         m == r.tm
     IN /\ LockFree(m)
        /\ IF CachedUnderLock(m)
           THEN /\ call' = [call EXCEPT ![c] = Return(r, token[m])]
                /\ hist' = Returning(hist, r, TRUE)
                /\ UNCHANGED <<lock, authReqs>>
           ELSE /\ lock' = [lock EXCEPT ![m] = c]
                /\ call' = [call EXCEPT ![c] = Post(r)]
                /\ authReqs' = [authReqs EXCEPT ![m] = @ + 1]
                /\ UNCHANGED hist
  /\ UNCHANGED <<token, issued, faults>>
  /\ UNCHANGED <<hookVars, mediaVars, botVars>>

\* POST /auth answers 2xx with an access_token: self._token is set
refresh_token_ok(c) ==
  /\ call[c].pc = "rf_inflight"
  /\ issued < MaxTok
  /\ issued' = issued + 1
  /\ token' = [token EXCEPT ![call[c].tm] = issued + 1]
  /\ call' = [call EXCEPT ![c].pc = "rf_close"]
  /\ UNCHANGED <<lock, faults, authReqs, hist>>
  /\ UNCHANGED <<hookVars, mediaVars, botVars>>

\* _refresh_token returns (the http client is closed): get_token checks
\* self._token once more and returns it, releasing the lock
get_token_return(c) ==
  /\ call[c].pc = "rf_close"
  /\ LET r == call[c]
         m == r.tm
     IN /\ lock' = [lock EXCEPT ![m] = 0]
        /\ call' = [call EXCEPT ![c] =
                      IF token[m] = 0 THEN GetTokenRaise(r) ELSE Return(r, token[m])]
  /\ UNCHANGED <<token, issued, faults, authReqs, hist>>
  /\ UNCHANGED <<hookVars, mediaVars, botVars>>

\* POST /auth fails with status s (raise_for_status, or no answer at all):
\* the retry of _refresh_token takes any exception, whatever the status
refresh_token_fail(c, s) ==
  /\ call[c].pc = "rf_inflight"
  /\ faults < MaxFaults
  /\ faults' = faults + 1
  /\ hist' = [hist EXCEPT !.authFail = TRUE]
  /\ LET r == call[c]
     IN IF r.rf < RefreshAttempts
        THEN /\ call' = [call EXCEPT ![c] = [r EXCEPT !.pc = "rf_sleep", !.rf = @ + 1]]
             /\ UNCHANGED lock
        ELSE /\ call' = [call EXCEPT ![c] = GetTokenRaise(r)]
             /\ lock' = [lock EXCEPT ![r.tm] = 0]
  /\ UNCHANGED <<token, issued, authReqs>>
  /\ UNCHANGED <<hookVars, mediaVars, botVars>>

\* the backoff of _refresh_token ends (the lock is still held): POST /auth again
refresh_token_retry(c) ==
  /\ call[c].pc = "rf_sleep"
  /\ call' = [call EXCEPT ![c] = Post(call[c])]
  /\ authReqs' = [authReqs EXCEPT ![call[c].tm] = @ + 1]
  /\ UNCHANGED <<token, lock, issued, faults, hist>>
  /\ UNCHANGED <<hookVars, mediaVars, botVars>>

\* the target endpoint answers the request of api_request
api_request_response(c, s) ==
  /\ call[c].pc = "req_inflight"
  /\ s \in Statuses
  /\ LET r == call[c]
     IN IF s = 200
        THEN /\ call' = [call EXCEPT ![c] = [r EXCEPT !.pc = "done", !.res = "ok",
                                                      !.tok = 0]]
             /\ UNCHANGED <<token, faults, hist>>
        ELSE /\ faults < MaxFaults
             /\ faults' = faults + 1
             /\ call' = [call EXCEPT ![c] = ApiRaise(r, s)]
             /\ IF s = 401
                THEN /\ token' = [token EXCEPT !["shared"] = invalidate(@)]
                     /\ hist' = [hist EXCEPT !.inval = TRUE, !.last401 = issued,
                                             !.pend401 = TRUE]
                ELSE UNCHANGED <<token, hist>>
  /\ UNCHANGED <<lock, issued, authReqs>>
  /\ UNCHANGED <<hookVars, mediaVars, botVars>>

ApiStep(c) ==
  \/ get_token_enter(c)
  \/ get_token_acquire(c)
  \/ refresh_token_ok(c)
  \/ get_token_return(c)
  \/ \E s \in AuthFailures : refresh_token_fail(c, s)
  \/ refresh_token_retry(c)
  \/ \E s \in Statuses : api_request_response(c, s)

\* ---------------------------------------------------------- server/main.py
\* The events of this model carry a text and no attachments.
UserAgents == {"none", "curl/8", "Pyrus-Bot-4"}
\* The request bodies.  notjson: not parsable as JSON; malformed: JSON, with
\* a required field missing; created: the last comment has the task's
\* create_date (its channel is telegram); nottg: the last comment's channel
\* is not telegram; fwd: a telegram comment to forward
EventKinds == {"notjson", "malformed", "created", "nottg", "fwd"}

\* `json.loads(body)` succeeds
ParsesAsJson(body) == body # "notjson"
\* the require(...) checks of process_webhook all pass
HasRequiredFields(body) == body \in {"created", "nottg", "fwd"}
\* `last_comment.get("create_date") == create_date`
ChatOpened_never(body) == FALSE
ChatOpened(body) == body = "created"
\* `last_comment.get("channel", {}).get("type") == "telegram"`
FromTelegram(body) == body \in {"created", "fwd"}

\* A header value is None or a string.  A string is a sequence of symbols:
\* hex digits in either case, and "sha1=" for those five characters.
HexDigits == <<"a", "b", "1">>
SigChars == {"a", "A", "b", "B", "1", "sha1="}
NoHeader == [some |-> FALSE, s |-> << >>]
Hdr(s) == [some |-> TRUE, s |-> s]
RECURSIVE StringsUpTo(_)
StringsUpTo(n) ==
  IF n = 0 THEN {<< >>}
  ELSE LET shorter == StringsUpTo(n - 1)
       IN shorter \cup {Append(x, ch) : x \in {y \in shorter : Len(y) = n - 1},
                                        ch \in SigChars}
Headers == {NoHeader} \cup {Hdr(x) : x \in StringsUpTo(DigestLen + 1)}

\* str.lower()
LowerChar(ch) == CASE ch = "A" -> "a" [] ch = "B" -> "b" [] OTHER -> ch
lower(x) == [i \in 1..Len(x) |-> LowerChar(x[i])]

\* hmac.new(SECURITY_KEY, body, sha1).hexdigest(): a string of DigestLen
\* lowercase hex digits, different for the different bodies
BodyNo(body) ==
  CASE body = "notjson" -> 0 [] body = "malformed" -> 1 [] body = "created" -> 2
    [] body = "nottg" -> 3 [] body = "fwd" -> 5
RECURSIVE Pow3(_)
Pow3(n) == IF n = 0 THEN 1 ELSE 3 * Pow3(n - 1)
Digests ==
  [body \in EventKinds |->
     [i \in 1..DigestLen |-> HexDigits[((BodyNo(body) \div Pow3(i - 1)) % 3) + 1]]]
hexdigest(body) == Digests[body]

\* hmac.compare_digest on two ASCII strings
compare_digest_first(x, y) == x # << >> /\ y # << >> /\ x[1] = y[1]
compare_digest(x, y) == x = y

\* `if not header_sig: return False` comes before the HMAC is computed
ComputesHmac(header_sig) == header_sig.some /\ header_sig.s # << >>

\* pyrus_webhook: `not user_agent or not user_agent.startswith("Pyrus-Bot-")`
UserAgentOk_present(ua) == ua # "none"
UserAgentOk(ua) == ua = "Pyrus-Bot-4"

\* verify_signature(header_sig, body)
verify_signature(header_sig, body) ==
  IF ~ComputesHmac(header_sig) THEN FALSE
  ELSE LET expected_sig == hexdigest(body)
       IN compare_digest(lower(header_sig.s), lower(expected_sig))

\* a call of verify_signature on any header and body
verify_signature_call(header_sig, body) ==
  /\ ~sigcheck.called
  /\ sigcheck' = [header_sig |-> header_sig, body |-> body, called |-> TRUE,
                  hmac |-> ComputesHmac(header_sig),
                  result |-> verify_signature(header_sig, body)]
  /\ UNCHANGED <<apiVars, hookVars, mediaVars, fwd, singles, commented, handlerVars>>

\* the X-Pyrus-Sig headers the requests with a body come with: none, the
\* digest, the digest in upper case, the digest after "sha1=", another digest
UpperChar(ch) == CASE ch = "a" -> "A" [] ch = "b" -> "B" [] OTHER -> ch
upper(x) == [i \in 1..Len(x) |-> UpperChar(x[i])]
OtherDigest(body) ==
  [i \in 1..DigestLen |->
     IF i = 1 THEN (IF hexdigest(body)[1] = "1" THEN "a" ELSE "1")
     ELSE hexdigest(body)[i]]
SigsOf ==
  [body \in EventKinds |->
     {NoHeader, Hdr(hexdigest(body)), Hdr(upper(hexdigest(body))),
      Hdr(<<"sha1=">> \o hexdigest(body)), Hdr(OtherDigest(body))}]
Sigs(body) == SigsOf[body]

\* asyncio.Queue.full()
QueueFull(q) == Len(q) >= QueueMax

\* asyncio.Queue.get: the oldest item
QueueGet_newest(q) == q[Len(q)]
QueueGet(q) == Head(q)

Remove(q, e) == SelectSeq(q, LAMBDA x : x # e)

\* webhook_worker: `except Exception` around process_webhook
ExceptionClasses == {"HTTPException", "RetryError", "HTTPStatusError"}
CaughtByWorker_http_only(exc) == exc = "HTTPException"
CaughtByWorker(exc) == exc \in ExceptionClasses

\* webhook_worker waits in `await webhook_queue.get()`
WorkerWaiting == worker.pc = "get"

Responded(r, st) == [r EXCEPT !.pc = "done", !.status = st, !.kind = "none"]

\* the handler returns after the put: FastAPI answers 200
Acknowledged_error(r) == Responded(r, 500)
Acknowledged(r) == Responded(r, 200)

\* POST /webhook: the handler up to its response, or up to the put that has
\* to wait for a free slot of the queue
pyrus_webhook(h, ua, sig, kind) ==
  /\ req[h].pc = "new"
  /\ \A g \in Reqs : g < h => req[g].pc # "new"
  /\ IF ~UserAgentOk(ua)
     THEN /\ req' = [req EXCEPT ![h] = Responded(@, 400)]
          /\ UNCHANGED <<webhook_queue, enq>>
     ELSE IF ~verify_signature(sig, kind)
     THEN /\ req' = [req EXCEPT ![h] = Responded(@, 500)]
          /\ UNCHANGED <<webhook_queue, enq>>
     ELSE IF ~QueueFull(webhook_queue)
     THEN /\ webhook_queue' = Append(webhook_queue, [id |-> h, kind |-> kind])
          /\ enq' = Append(enq, h)
          /\ req' = [req EXCEPT ![h] = Acknowledged(@)]
     ELSE /\ req' = [req EXCEPT ![h] = [@ EXCEPT !.pc = "blocked", !.kind = kind,
                                                !.full = TRUE]]
          /\ UNCHANGED <<webhook_queue, enq>>
  /\ UNCHANGED <<worker, count_triggered, deq, inproc, outcome, chat, apiVars>>
  /\ UNCHANGED <<lifespan, mediaVars, botVars>>

\* a handler waiting in `await webhook_queue.put(...)` finds a free slot
pyrus_webhook_put(h) ==
  /\ req[h].pc = "blocked"
  /\ ~QueueFull(webhook_queue)
  /\ webhook_queue' = Append(webhook_queue, [id |-> h, kind |-> req[h].kind])
  /\ enq' = Append(enq, h)
  /\ req' = [req EXCEPT ![h] = Acknowledged(@)]
  /\ UNCHANGED <<worker, count_triggered, deq, inproc, outcome, chat, apiVars>>
  /\ UNCHANGED <<lifespan, mediaVars, botVars>>

\* process_webhook has returned or raised: the except and finally clauses of
\* webhook_worker, then the next turn of its loop
WorkerAfter(raised) ==
  IF raised = "none" \/ CaughtByWorker(raised)
  THEN [pc |-> "get", ev |-> 0]
  ELSE [pc |-> "dead", ev |-> 0]

\* webhook_worker gets an event and process_webhook runs to its first await
webhook_worker_get ==
  /\ WorkerWaiting
  /\ webhook_queue # << >>
  /\ LET e == QueueGet(webhook_queue)
     IN /\ webhook_queue' = Remove(webhook_queue, e)
        /\ deq' = Append(deq, e.id)
        /\ CASE ~ParsesAsJson(e.kind) ->
                  \* raise HTTPException(status_code=422)
                  /\ outcome' = [outcome EXCEPT ![e.id] = "raised422"]
                  /\ worker' = WorkerAfter("HTTPException")
                  /\ UNCHANGED <<inproc, count_triggered, call, token, lock>>
             [] ParsesAsJson(e.kind) /\ ~HasRequiredFields(e.kind) ->
                  \* require(...) raises HTTPException(status_code=500)
                  /\ outcome' = [outcome EXCEPT ![e.id] = "raised500"]
                  /\ worker' = WorkerAfter("HTTPException")
                  /\ UNCHANGED <<inproc, count_triggered, call, token, lock>>
             [] HasRequiredFields(e.kind) /\ ~ChatOpened(e.kind)
                  /\ ~FromTelegram(e.kind) ->
                  /\ outcome' = [outcome EXCEPT ![e.id] = "resp200"]
                  /\ worker' = WorkerAfter("none")
                  /\ count_triggered' = count_triggered + 1
                  /\ UNCHANGED <<inproc, call, token, lock>>
             [] HasRequiredFields(e.kind) /\ ChatOpened(e.kind) ->
                  \* await open_chat(task_id): api_request on the shared manager
                  /\ worker' = [pc |-> "open_chat", ev |-> e.id]
                  /\ inproc' = inproc \cup {e.id}
                  /\ count_triggered' = count_triggered + 1
                  /\ call' = [call EXCEPT ![WSlot] = [Call0 EXCEPT !.pc = "gt_start"]]
                  /\ UNCHANGED <<outcome, token, lock>>
             [] HasRequiredFields(e.kind) /\ ~ChatOpened(e.kind)
                  /\ FromTelegram(e.kind) ->
                  \* token = await TokenManager().get_token(): a new manager
                  /\ worker' = [pc |-> "token", ev |-> e.id]
                  /\ inproc' = inproc \cup {e.id}
                  /\ count_triggered' = count_triggered + 1
                  /\ token' = [token EXCEPT !["fresh"] = 0]
                  /\ lock' = [lock EXCEPT !["fresh"] = 0]
                  /\ call' = [call EXCEPT ![WSlot] =
                                [Call0 EXCEPT !.pc = "gt_start", !.mode = "tok",
                                              !.tm = "fresh"]]
                  /\ UNCHANGED outcome
  /\ UNCHANGED <<req, enq, chat, issued, faults, authReqs, hist>>
  /\ UNCHANGED <<lifespan, mediaVars, botVars>>

\* the api_request of open_chat has ended
process_webhook_open_chat ==
  /\ worker.pc = "open_chat"
  /\ call[WSlot].pc \in {"done", "failed"}
  /\ LET r == call[WSlot]
     IN /\ outcome' = [outcome EXCEPT ![worker.ev] =
                         IF r.pc = "done" THEN "resp200" ELSE "raised"]
        /\ worker' = WorkerAfter(IF r.pc = "done" THEN "none"
                                 ELSE IF r.res = "http_error" THEN "HTTPStatusError"
                                 ELSE "RetryError")
  /\ inproc' = inproc \ {worker.ev}
  /\ call' = [call EXCEPT ![WSlot] = Call0]
  /\ UNCHANGED <<req, webhook_queue, count_triggered, enq, deq, chat>>
  /\ UNCHANGED <<token, lock, issued, faults, authReqs, hist>>
  /\ UNCHANGED <<lifespan, mediaVars, botVars>>

\* get_token of the new TokenManager has ended: on a token the text is sent
\* to the chat (bot.send_message), on a failure the answer is 500
process_webhook_token ==
  /\ worker.pc = "token"
  /\ call[WSlot].pc \in {"done", "failed"}
  /\ IF call[WSlot].pc = "done"
     THEN /\ worker' = [worker EXCEPT !.pc = "send"]
          /\ chat' = chat \cup {worker.ev}
          /\ UNCHANGED <<outcome, inproc>>
     ELSE /\ outcome' = [outcome EXCEPT ![worker.ev] = "resp500"]
          /\ worker' = WorkerAfter("none")
          /\ inproc' = inproc \ {worker.ev}
          /\ UNCHANGED chat
  /\ call' = [call EXCEPT ![WSlot] = Call0]
  \* the TokenManager() instance is dropped with its token
  /\ token' = [token EXCEPT !["fresh"] = 0]
  /\ UNCHANGED <<req, webhook_queue, count_triggered, enq, deq>>
  /\ UNCHANGED <<lock, issued, faults, authReqs, hist>>
  /\ UNCHANGED <<lifespan, mediaVars, botVars>>

\* bot.send_message has ended
process_webhook_send(ok) ==
  /\ worker.pc = "send"
  /\ IF ok
     THEN /\ outcome' = [outcome EXCEPT ![worker.ev] = "resp200"]
          /\ UNCHANGED faults
     ELSE /\ faults < MaxFaults
          /\ faults' = faults + 1
          /\ outcome' = [outcome EXCEPT ![worker.ev] = "resp500"]
  /\ worker' = WorkerAfter("none")
  /\ inproc' = inproc \ {worker.ev}
  /\ UNCHANGED <<req, webhook_queue, count_triggered, enq, deq, chat>>
  /\ UNCHANGED <<token, lock, call, issued, authReqs, hist>>
  /\ UNCHANGED <<lifespan, mediaVars, botVars>>

NextWebhook ==
  \/ \E h \in Reqs, ua \in UserAgents, kind \in EventKinds :
        \E sig \in Sigs(kind) : pyrus_webhook(h, ua, sig, kind)
  \/ \E h \in Reqs : pyrus_webhook_put(h)
  \/ webhook_worker_get
  \/ process_webhook_open_chat
  \/ process_webhook_token
  \/ \E ok \in BOOLEAN : process_webhook_send(ok)
  \* the calls of the worker; it is the only caller here, so the lock of a
  \* TokenManager is free whenever it asks for it
  \/ get_token_enter(WSlot)
  \/ refresh_token_ok(WSlot)
  \/ get_token_return(WSlot)
  \/ \E st \in AuthFailures : refresh_token_fail(WSlot, st)
  \/ refresh_token_retry(WSlot)
  \/ \E st \in Statuses : api_request_response(WSlot, st)

\* The shutdown of the server.  worker_task.cancel() makes the event loop
\* throw CancelledError into webhook_worker at the await it is suspended in;
\* the request and its delivery are one step.  The states between two awaits
\* (a call that has ended, a call that has not reached its first await) are
\* not places where the worker can be cancelled.
AtAwait ==
  \/ worker.pc \in {"get", "send"}
  \/ /\ worker.pc \in {"open_chat", "token"}
     /\ call[WSlot].pc \in {"gt_start", "rf_inflight", "rf_sleep", "rf_close",
                            "req_inflight"}
     /\ ~(call[WSlot].pc = "gt_start" /\ call[WSlot].gt = 1 /\ call[WSlot].att = 1)

\* CancelledError is raised inside an attempt of api_request: its @retry
\* takes every exception of the attempt, and retry_on_exception returns True
\* for all but an HTTPStatusError with status 403, so the attempt counts as
\* a failed one and the cancellation goes no further.  The @retry of
\* get_token and _refresh_token retry Exception only and let it pass.
\* In the back-off between two attempts of api_request it is not inside one.
Swallowed(w, r) ==
  /\ w.pc = "open_chat" /\ r.mode = "api"
  /\ ~(r.pc = "gt_start" /\ r.gt = 1 /\ r.att > 1)

\* `await worker_task` returns when the task is done
WorkerDone_always == TRUE
WorkerDone == worker.pc \in {"terminated", "dead"}

\* lifespan, after the yield: worker_task.cancel()
lifespan_cancel ==
  /\ lifespan = "running"
  /\ AtAwait
  /\ lifespan' = "awaiting"
  /\ LET r == call[WSlot]
     IN IF Swallowed(worker, r)
        THEN \* the attempt has failed: the next one, or RetryError
             /\ call' = [call EXCEPT ![WSlot] = ApiRaise(r, 0)]
             /\ lock' = [lock EXCEPT ![r.tm] = IF @ = WSlot THEN 0 ELSE @]
             /\ UNCHANGED <<worker, inproc, outcome, token>>
        ELSE \* CancelledError leaves process_webhook and webhook_worker
             \* (`except Exception` does not take it; task_done() runs)
             /\ worker' = [pc |-> "terminated", ev |-> 0]
             /\ inproc' = inproc \ {worker.ev}
             /\ outcome' = IF worker.ev = 0 THEN outcome
                           ELSE [outcome EXCEPT ![worker.ev] = "cancelled"]
             /\ call' = [call EXCEPT ![WSlot] = Call0]
             /\ lock' = [m \in TMs |-> IF lock[m] = WSlot THEN 0 ELSE lock[m]]
             /\ token' = [token EXCEPT !["fresh"] = 0]
  /\ UNCHANGED <<req, webhook_queue, count_triggered, enq, deq, chat>>
  /\ UNCHANGED <<issued, faults, authReqs, hist>>
  /\ UNCHANGED <<mediaVars, botVars>>

\* lifespan: `await worker_task` raises CancelledError, which is caught
lifespan_exit ==
  /\ lifespan = "awaiting"
  /\ WorkerDone
  /\ lifespan' = "exited"
  /\ UNCHANGED <<req, webhook_queue, worker, count_triggered, enq, deq, inproc,
                 outcome, chat>>
  /\ UNCHANGED <<apiVars, mediaVars, botVars>>

\* The server takes requests until it shuts down; the requests of this
\* specification are the ones pyrus_webhook accepts.
NextShutdown ==
  \/ /\ lifespan = "running"
     /\ \E h \in Reqs, kind \in EventKinds :
           pyrus_webhook(h, "Pyrus-Bot-4", Hdr(hexdigest(kind)), kind)
  \/ /\ lifespan = "running"
     /\ \E h \in Reqs : pyrus_webhook_put(h)
  \/ lifespan_cancel
  \/ lifespan_exit
  \/ webhook_worker_get
  \/ process_webhook_open_chat
  \/ process_webhook_token
  \/ \E ok \in BOOLEAN : process_webhook_send(ok)
  \/ get_token_enter(WSlot)
  \/ refresh_token_ok(WSlot)
  \/ get_token_return(WSlot)
  \/ \E st \in AuthFailures : refresh_token_fail(WSlot, st)
  \/ refresh_token_retry(WSlot)
  \/ \E st \in Statuses : api_request_response(WSlot, st)

\* a step of webhook_worker: it gets an event, or a call it awaits in
\* process_webhook is answered
WorkerStep ==
  \/ webhook_worker_get
  \/ process_webhook_open_chat
  \/ process_webhook_token
  \/ \E ok \in BOOLEAN : process_webhook_send(ok)
  \/ get_token_enter(WSlot)
  \/ refresh_token_ok(WSlot)
  \/ get_token_return(WSlot)
  \/ \E st \in AuthFailures : refresh_token_fail(WSlot, st)
  \/ refresh_token_retry(WSlot)
  \/ \E st \in Statuses : api_request_response(WSlot, st)

\* The server while it runs (no shutdown), with the requests pyrus_webhook
\* accepts.
NextRunning ==
  \/ \E h \in Reqs, kind \in EventKinds :
        pyrus_webhook(h, "Pyrus-Bot-4", Hdr(hexdigest(kind)), kind)
  \/ \E h \in Reqs : pyrus_webhook_put(h)
  \/ WorkerStep

\* --------------------------------- server/main.py: process_webhook, utils.py
\* process_webhook on one event, in detail.  The event is what its body says
\* after json.loads: which of the required values it has, what its last
\* comment looks like and which attachments that comment has.  The calls to
\* the CRM and to the chat (open_chat, get_token, the api_request of a
\* download, send_message, send_media_group) are taken by their result.
\* BotClient.get_instance() returns a bot, settings.REQUEST_FORM_FIELDS has
\* the entry "tg_id".
RequiredFields ==
  {"task", "access_token", "fields", "comments", "event", "task_id", "create_date"}
\* an attachment entry: complete and within MAX_FILE_SIZE, without a name,
\* without url or size, larger than MAX_FILE_SIZE
AttKinds == {"file", "noname", "nourl", "big"}
AttSeqs == UNION {[1..n -> AttKinds] : n \in 0..MaxAtt}
NotJson ==
  [json |-> FALSE, missing |-> {}, created |-> FALSE, channel |-> "absent",
   text |-> FALSE, attachments |-> << >>, chat_id |-> "absent"]
\* channel: the last comment has no "channel" key, a channel of another
\* type, the telegram channel;  chat_id: the value of the tg_id field of the
\* task is an integer, is not there, is not a number
Payloads ==
  {NotJson} \cup
  [json : {TRUE}, missing : {{}} \cup {{f} : f \in RequiredFields},
   created : BOOLEAN, channel : {"absent", "other", "telegram"}, text : BOOLEAN,
   attachments : AttSeqs, chat_id : {"ok", "absent", "notint"}]

\* the require(...) calls of process_webhook all pass
Required_task_only(e) == "task" \notin e.missing
Required(e) == e.missing \cap RequiredFields = {}
\* the require(...) calls above `count_triggered += 1` all pass
RequiredToCount(e) == e.missing \cap RequiredFields \subseteq {"create_date"}
\* `last_comment.get("create_date") == create_date`
LastCommentCreated(e) == e.created
\* `last_comment.get("channel", {}).get("type") == "telegram"`
LastCommentFromTelegram_always(e) == TRUE
LastCommentFromTelegram(e) == e.channel = "telegram"

Fwd0 ==
  [pc |-> "idle", ev |-> NotJson, results |-> << >>, calls |-> << >>,
   crm |-> {}, chunk |-> 0, outcome |-> "none"]

End(f, out) == [f EXCEPT !.pc = "done", !.outcome = out, !.chunk = 0]

\* download_one up to its api_request: an error entry, or the request
Immediate(att) == IF att = "file" THEN "pending" ELSE "error"

\* process_file_data(attach_data) returns a file
process_file_data_all(entry) == TRUE
process_file_data(entry) == entry = "content"

\* the attachments (their indices) send_message_to_telegram_chat has in
\* processed_files
ProcessedFiles(results) ==
  SelectSeq([i \in 1..Len(results) |-> i], LAMBDA i : process_file_data(results[i]))

chunk_size == 10
chunk_list(seq, n) ==
  [k \in 1..((Len(seq) + n - 1) \div n) |->
     SubSeq(seq, (k - 1) * n + 1, IF k * n < Len(seq) THEN k * n ELSE Len(seq))]

TextCall == [to |-> "send_message", media |-> << >>]
MediaCall(chunk) == [to |-> "send_media_group", media |-> chunk]

\* send_message_to_telegram_chat: the loop over the chunks, from chunk k
SendChunk(f, k) ==
  LET chunks == chunk_list(ProcessedFiles(f.results), chunk_size)
  IN IF k > Len(chunks) THEN End(f, "resp200")
     ELSE [f EXCEPT !.pc = "media", !.chunk = k,
                    !.calls = Append(@, MediaCall(chunks[k]))]

\* send_message_to_telegram_chat after the text
SendAttachments(f) ==
  IF f.results = << >> \/ ProcessedFiles(f.results) = << >>
  THEN End(f, "resp200")
  ELSE SendChunk(f, 1)

send_message_to_telegram_chat(f) ==
  IF f.ev.text
  THEN [f EXCEPT !.pc = "text", !.calls = Append(@, TextCall)]
  ELSE SendAttachments(f)

\* process_webhook once files_info is there: the chat id, then the send
AfterDownloads(f) ==
  IF f.ev.chat_id # "ok" THEN End(f, "resp200")
  ELSE send_message_to_telegram_chat(f)

\* webhook_worker hands an event to process_webhook, which runs to its
\* first await or to its end
process_webhook(e) ==
  /\ fwd.pc = "idle"
  /\ LET f == [fwd EXCEPT !.ev = e]
     IN /\ fwd' =
             IF ~e.json THEN End(f, "raised422")
             ELSE IF ~Required(e) THEN End(f, "raised500")
             ELSE IF LastCommentCreated(e)
             THEN [f EXCEPT !.pc = "open_chat", !.crm = @ \cup {"open_chat"}]
             ELSE IF ~LastCommentFromTelegram(e) THEN End(f, "resp200")
             ELSE [f EXCEPT !.pc = "token", !.crm = @ \cup {"auth"}]
        /\ count_triggered' =
             IF e.json /\ RequiredToCount(e) THEN count_triggered + 1
             ELSE count_triggered
  /\ UNCHANGED <<req, webhook_queue, worker, enq, deq, inproc, outcome, chat, lifespan>>
  /\ UNCHANGED <<apiVars, mediaVars, sigcheck, singles, commented, handlerVars>>

\* open_chat has returned or raised
process_webhook_opened(ok) ==
  /\ fwd.pc = "open_chat"
  /\ fwd' = End(fwd, IF ok THEN "resp200" ELSE "raised")
  /\ UNCHANGED <<apiVars, hookVars, mediaVars, sigcheck, singles, commented, handlerVars>>

\* TokenManager().get_token() has returned or raised; with a token and
\* attachments download_files starts a download_one for each of them
process_webhook_got_token(ok) ==
  /\ fwd.pc = "token"
  /\ fwd' =
       IF ~ok THEN End(fwd, "resp500")
       ELSE IF fwd.ev.attachments = << >> THEN AfterDownloads(fwd)
       ELSE LET att == fwd.ev.attachments
                res == [i \in 1..Len(att) |-> Immediate(att[i])]
                f == [fwd EXCEPT !.results = res]
            IN IF \E i \in 1..Len(res) : res[i] = "pending"
               THEN [f EXCEPT !.pc = "download", !.crm = @ \cup {"download"}]
               ELSE AfterDownloads(f)
  /\ UNCHANGED <<apiVars, hookVars, mediaVars, sigcheck, singles, commented, handlerVars>>

\* what the api_request of a download gives: bytes, something else, an exception
DownloadAnswers == {"bytes", "notbytes", "exception"}

\* the api_request of download_one for attachment i has ended; when it was
\* the last one, asyncio.gather returns the list and process_webhook goes on
download_one(i, ans) ==
  /\ fwd.pc = "download"
  /\ i \in 1..Len(fwd.results)
  /\ fwd.results[i] = "pending"
  /\ LET f == [fwd EXCEPT !.results[i] = IF ans = "bytes" THEN "content" ELSE "error"]
     IN fwd' = IF \E j \in 1..Len(f.results) : f.results[j] = "pending"
               THEN f ELSE AfterDownloads(f)
  /\ UNCHANGED <<apiVars, hookVars, mediaVars, sigcheck, singles, commented, handlerVars>>

\* bot.send_message has returned or raised
send_message(ok) ==
  /\ fwd.pc = "text"
  /\ fwd' = IF ok THEN SendAttachments(fwd) ELSE End(fwd, "resp500")
  /\ UNCHANGED <<apiVars, hookVars, mediaVars, sigcheck, singles, commented, handlerVars>>

\* bot.send_media_group has returned or raised (which is logged)
send_media_group(ok) ==
  /\ fwd.pc = "media"
  /\ fwd' = SendChunk(fwd, fwd.chunk + 1)
  /\ UNCHANGED <<apiVars, hookVars, mediaVars, sigcheck, singles, commented, handlerVars>>

NextForward ==
  \/ /\ fwd.pc = "idle"
     /\ \E e \in Payloads : process_webhook(e)
  \/ \E ok \in BOOLEAN : process_webhook_opened(ok)
  \/ \E ok \in BOOLEAN : process_webhook_got_token(ok)
  \/ \E i \in 1..MaxAtt, ans \in DownloadAnswers : download_one(i, ans)
  \/ \E ok \in BOOLEAN : send_message(ok)
  \/ \E ok \in BOOLEAN : send_media_group(ok)

\* ------------------------------------------------- bot/process_message.py
\* The CRM and chat calls of a flush (get_file, download_file, the upload
\* and the comment through api_request) are taken by their result.
Delay == 3                       \* asyncio.sleep(3)

Keys == {"g1", "g2"}
GroupIds == Keys \cup {"none"}   \* message.media_group_id, "none" is None
\* identify_file_data and the size check of process_single_file_for_comment:
\* a file within MAX_FILE_SIZE, a file above it, a message with no file
MsgKinds == {"photo", "big", "text"}
\* the same with a caption
Captioned == {"photo_c", "big_c", "text_c"}

InitMedia ==
  /\ media_groups_data = [k \in Keys |-> << >>]
  /\ processing_tasks = {}
  /\ tasks = {}
  /\ nmsg = 0
  /\ arrived = [k \in Keys |-> << >>]
  /\ age = [k \in Keys |-> 0]
  /\ flushes = << >>

\* media_groups_data.setdefault(media_group_id, []).append(message)
Buffered_front(buf, m) == <<m>> \o buf
Buffered(buf, m) == Append(buf, m)

\* `if media_group_id in processing_tasks: return`
AlreadyScheduled_never(k) == FALSE
AlreadyScheduled(k) == k \in processing_tasks

\* identify_file_data finds a file in the message
HasFileId(m) == m.kind \in {"photo", "big", "photo_c", "big_c"}
\* `file_size and file_size > settings.MAX_FILE_SIZE`
TooBig_never(m) == FALSE
TooBig(m) == m.kind \in {"big", "big_c"}
\* process_single_file_for_comment: an error text, or (file_id, filename)
process_single_file_for_comment(m) ==
  IF ~HasFileId(m) THEN "unsupported"
  ELSE IF TooBig(m) THEN "too_big"
  ELSE "file"
\* process_single_file_for_comment returns (file_id, filename)
IsFile(m) == process_single_file_for_comment(m) = "file"

\* the loop of process_group runs without suspension over the messages that
\* are skipped: the next index at or after i whose message is a file to fetch
NextFile(buf, i) ==
  IF \E j \in i..Len(buf) : IsFile(buf[j])
  THEN CHOOSE j \in i..Len(buf) : IsFile(buf[j]) /\ \A l \in i..(j - 1) : ~IsFile(buf[l])
  ELSE Len(buf) + 1

\* message.caption, None (<< >>) when the message has none; the captions of
\* different messages are different texts
None == << >>
caption(m) == IF m.kind \in Captioned THEN <<m.id>> ELSE None

\* `comment_text = group_messages[0].caption or None`
comment_text_last(group_messages) == caption(group_messages[Len(group_messages)])
comment_text(group_messages) == caption(group_messages[1])

\* build_payload(text, files): the text or "...", and the attachments
Placeholder == <<0>>             \* "..."
build_payload(text, files) ==
  [text |-> IF text # None THEN text ELSE Placeholder, attachments |-> files]
NoComment == [text |-> None, attachments |-> << >>]

\* `msg.reply(...)` in process_group, without await: the coroutine object is
\* dropped and no message is sent.  notices are the messages (their ids) for
\* which a failure notice has been sent to the user.
reply_not_awaited(notices, ids) == notices

\* process_file has returned None for the message at the index of the loop
Dropped(t) == [t EXCEPT !.notices = reply_not_awaited(@, {t.buf[t.i].id})]

\* process_group at index i of its loop: awaiting process_file, or past the
\* loop, with the payload built, and awaiting send_comment_in_pyrus
AtIndex(t, i) ==
  LET j == NextFile(t.buf, i)
      u == [t EXCEPT !.i = j,
                     !.notices = reply_not_awaited(@, {t.buf[l].id : l \in i..(j - 1)})]
  IN IF j > Len(t.buf)
     THEN [u EXCEPT !.pc = "send",
                    !.comment = build_payload(comment_text(t.buf), t.files)]
     ELSE [u EXCEPT !.pc = "get_file"]

Sleeping(k) == {t \in tasks : t.pc = "sleep" /\ t.key = k}

\* process_media_group(message, tg_id, task_id)
process_media_group(k, kind) ==
  /\ nmsg < MaxMsgs
  /\ nmsg' = nmsg + 1
  /\ LET m == [id |-> nmsg + 1, kind |-> kind]
     IN IF k = "none"
        THEN UNCHANGED <<media_groups_data, processing_tasks, tasks, arrived, age, flushes>>
        ELSE /\ media_groups_data' = [media_groups_data EXCEPT ![k] = Buffered(@, m)]
             /\ arrived' = [arrived EXCEPT ![k] =
                             Append(@, [id |-> m.id, kind |-> m.kind,
                                        at |-> IF @ = << >> THEN 0 ELSE age[k]])]
             /\ age' = IF arrived[k] = << >> THEN [age EXCEPT ![k] = 0] ELSE age
             /\ IF AlreadyScheduled(k)
                THEN UNCHANGED <<processing_tasks, tasks>>
                ELSE /\ processing_tasks' = processing_tasks \cup {k}
                     /\ tasks' = tasks \cup
                          {[id |-> m.id, key |-> k, pc |-> "sleep", left |-> Delay,
                            buf |-> << >>, i |-> 0, files |-> << >>,
                            notices |-> {}, comment |-> NoComment]}
             /\ UNCHANGED flushes
  /\ UNCHANGED <<apiVars, hookVars, botVars>>

\* one unit of time passes; a timer that is due fires before time goes on
Tick ==
  /\ \E t \in tasks : t.pc = "sleep"
  /\ \A t \in tasks : t.pc = "sleep" => t.left > 0
  /\ tasks' = {IF t.pc = "sleep" THEN [t EXCEPT !.left = @ - 1] ELSE t : t \in tasks}
  /\ age' = [k \in Keys |-> IF arrived[k] # << >> THEN age[k] + 1 ELSE age[k]]
  /\ UNCHANGED <<media_groups_data, processing_tasks, nmsg, arrived, flushes>>
  /\ UNCHANGED <<apiVars, hookVars, botVars>>

\* `media_groups_data.pop(media_group_id, [])`: the dict without the key
Popped_keep(data, k) == data
Popped(data, k) == [data EXCEPT ![k] = << >>]

\* process_group: the sleep is over; pop the buffer, unmark the key, and run
\* the loop up to its first await
process_group_fire(t) ==
  /\ t \in tasks /\ t.pc = "sleep" /\ t.left = 0
  /\ LET group_messages == media_groups_data[t.key]
     IN /\ media_groups_data' = Popped(media_groups_data, t.key)
        /\ processing_tasks' = processing_tasks \ {t.key}
        /\ arrived' = [arrived EXCEPT ![t.key] = << >>]
        /\ age' = [age EXCEPT ![t.key] = 0]
        /\ IF group_messages = << >>
           THEN /\ tasks' = tasks \ {t}
                /\ UNCHANGED flushes
           ELSE /\ tasks' = (tasks \ {t}) \cup {AtIndex([t EXCEPT !.buf = group_messages], 1)}
                /\ flushes' = Append(flushes, [key |-> t.key, msgs |-> group_messages,
                                               at |-> [j \in 1..Len(arrived[t.key]) |->
                                                         arrived[t.key][j].at]])
  /\ UNCHANGED nmsg
  /\ UNCHANGED <<apiVars, hookVars, botVars>>

\* process_file of process_group: bot.get_file has returned a file with a
\* path, or it has raised or returned no path (process_file returns None)
process_group_get_file(t, ok) ==
  /\ t \in tasks /\ t.pc = "get_file"
  /\ tasks' = (tasks \ {t}) \cup
                {IF ok THEN [t EXCEPT !.pc = "download_file"]
                 ELSE AtIndex(Dropped(t), t.i + 1)}
  /\ UNCHANGED <<media_groups_data, processing_tasks, nmsg, arrived, age, flushes>>
  /\ UNCHANGED <<apiVars, hookVars, botVars>>

\* process_file of process_group: bot.download_file has returned or raised
process_group_download_file(t, ok) ==
  /\ t \in tasks /\ t.pc = "download_file"
  /\ tasks' = (tasks \ {t}) \cup
                {IF ok THEN [t EXCEPT !.pc = "upload"]
                 ELSE AtIndex(Dropped(t), t.i + 1)}
  /\ UNCHANGED <<media_groups_data, processing_tasks, nmsg, arrived, age, flushes>>
  /\ UNCHANGED <<apiVars, hookVars, botVars>>

\* get_unique_file_id has returned a guid or None: process_file for the
\* message at the index has ended
process_group_file(t, ok) ==
  /\ t \in tasks /\ t.pc = "upload"
  /\ LET u == IF ok THEN [t EXCEPT !.files = Append(@, t.buf[t.i].id)]
              ELSE Dropped(t)
     IN tasks' = (tasks \ {t}) \cup {AtIndex(u, t.i + 1)}
  /\ UNCHANGED <<media_groups_data, processing_tasks, nmsg, arrived, age, flushes>>
  /\ UNCHANGED <<apiVars, hookVars, botVars>>

\* send_comment_in_pyrus has returned, or it has raised, which nothing in
\* process_group catches: the task ends
process_group_send(t, ok) ==
  /\ t \in tasks /\ t.pc = "send"
  /\ tasks' = tasks \ {t}
  /\ UNCHANGED <<media_groups_data, processing_tasks, nmsg, arrived, age, flushes>>
  /\ UNCHANGED <<apiVars, hookVars, botVars>>

\* the media_group_id of the next message: the ids are interchangeable, so
\* the first group that shows up is called g1
NextGroupIds == {k \in GroupIds : k = "g2" => arrived["g1"] # << >>}

NextMedia ==
  \/ \E k \in NextGroupIds, kind \in MsgKinds : process_media_group(k, kind)
  \/ Tick
  \/ \E t \in tasks : process_group_fire(t)
  \/ \E t \in tasks, ok \in BOOLEAN : process_group_get_file(t, ok)
  \/ \E t \in tasks, ok \in BOOLEAN : process_group_download_file(t, ok)
  \/ \E t \in tasks, ok \in BOOLEAN : process_group_file(t, ok)
  \/ \E t \in tasks, ok \in BOOLEAN : process_group_send(t, ok)

\* process_single_comment(msg, task_id).  A call is a record: its message,
\* where it waits, whether it holds an uploaded file, the number of
\* send_comment_in_pyrus calls it has made, and whether it has called
\* msg.reply with an error text.
Single0(m) ==
  [id |-> m.id, kind |-> m.kind, pc |-> "start", file |-> FALSE, sends |-> 0,
   replied |-> FALSE]

\* `await msg.reply(<error text>)` and return
ErrorReply(s) == [s EXCEPT !.pc = "reply", !.replied = TRUE]
\* build_payload and `await send_comment_in_pyrus(task_id, json_data)`
SendComment(s) == [s EXCEPT !.pc = "send", !.sends = @ + 1]
\* the except clause around send_comment_in_pyrus
SendFailed_silent(s) == {}
SendFailed(s) == {ErrorReply(s)}

\* process_single_comment up to its first await that waits
process_single_comment(kind) ==
  /\ nmsg < MaxMsgs
  /\ nmsg' = nmsg + 1
  /\ LET m == [id |-> nmsg + 1, kind |-> kind]
         s == Single0(m)
     IN singles' = singles \cup
          {IF m.kind = "text" THEN SendComment(s)
           ELSE IF process_single_file_for_comment(m) # "file" THEN ErrorReply(s)
           ELSE [s EXCEPT !.pc = "get_file"]}
  /\ UNCHANGED <<media_groups_data, processing_tasks, tasks, arrived, age, flushes>>
  /\ UNCHANGED <<apiVars, hookVars, sigcheck, fwd, commented, handlerVars>>

\* process_file: bot.get_file has returned a file with a path, or not
process_single_get_file(s, ok) ==
  /\ s \in singles /\ s.pc = "get_file"
  /\ singles' = (singles \ {s}) \cup
                  {IF ok THEN [s EXCEPT !.pc = "download_file"] ELSE ErrorReply(s)}
  /\ UNCHANGED <<apiVars, hookVars, mediaVars, sigcheck, fwd, commented, handlerVars>>

\* process_file: bot.download_file has returned or raised
process_single_download_file(s, ok) ==
  /\ s \in singles /\ s.pc = "download_file"
  /\ singles' = (singles \ {s}) \cup
                  {IF ok THEN [s EXCEPT !.pc = "upload"] ELSE ErrorReply(s)}
  /\ UNCHANGED <<apiVars, hookVars, mediaVars, sigcheck, fwd, commented, handlerVars>>

\* process_file: get_unique_file_id has returned a guid or None
process_single_file(s, ok) ==
  /\ s \in singles /\ s.pc = "upload"
  /\ singles' = (singles \ {s}) \cup
                  {IF ok THEN SendComment([s EXCEPT !.file = TRUE]) ELSE ErrorReply(s)}
  /\ UNCHANGED <<apiVars, hookVars, mediaVars, sigcheck, fwd, commented, handlerVars>>

\* send_comment_in_pyrus has returned (the call ends) or raised
process_single_send(s, ok) ==
  /\ s \in singles /\ s.pc = "send"
  /\ singles' = (singles \ {s}) \cup (IF ok THEN {} ELSE SendFailed(s))
  /\ commented' = IF ok THEN commented \cup {s.id} ELSE commented
  /\ UNCHANGED <<apiVars, hookVars, mediaVars, sigcheck, fwd, handlerVars>>

\* msg.reply has returned or raised: the call ends
process_single_reply(s) ==
  /\ s \in singles /\ s.pc = "reply"
  /\ singles' = singles \ {s}
  /\ UNCHANGED <<apiVars, hookVars, mediaVars, sigcheck, fwd, commented, handlerVars>>

NextSingle ==
  \/ \E kind \in MsgKinds : process_single_comment(kind)
  \/ \E s \in singles, ok \in BOOLEAN : process_single_get_file(s, ok)
  \/ \E s \in singles, ok \in BOOLEAN : process_single_download_file(s, ok)
  \/ \E s \in singles, ok \in BOOLEAN : process_single_file(s, ok)
  \/ \E s \in singles, ok \in BOOLEAN : process_single_send(s, ok)
  \/ \E s \in singles : process_single_reply(s)

\* message_text_handler hands a message with a media_group_id to
\* process_media_group and any other message to process_single_comment;
\* here the messages of one media group and messages without a group
NextTransfer ==
  \/ \E kind \in MsgKinds : process_media_group("g1", kind)
  \/ Tick
  \/ \E t \in tasks : process_group_fire(t)
  \/ \E t \in tasks, ok \in BOOLEAN : process_group_get_file(t, ok)
  \/ \E t \in tasks, ok \in BOOLEAN : process_group_download_file(t, ok)
  \/ \E t \in tasks, ok \in BOOLEAN : process_group_file(t, ok)
  \/ \E t \in tasks, ok \in BOOLEAN : process_group_send(t, ok)
  \/ NextSingle

\* the flush of one media group whose messages may have captions: a file
\* with and without a caption, a file that is too large, and a message
\* without a file that has a caption
FlushKinds == {"photo", "photo_c", "big", "text_c"}
NextFlush ==
  \/ \E kind \in FlushKinds : process_media_group("g1", kind)
  \/ Tick
  \/ \E t \in tasks : process_group_fire(t)
  \/ \E t \in tasks, ok \in BOOLEAN : process_group_get_file(t, ok)
  \/ \E t \in tasks, ok \in BOOLEAN : process_group_download_file(t, ok)
  \/ \E t \in tasks, ok \in BOOLEAN : process_group_file(t, ok)
  \/ \E t \in tasks, ok \in BOOLEAN : process_group_send(t, ok)

\* ------------------------------------------------------- bot/handlers.py
\* The CRM calls of the handlers (check_api_element, create_user_task,
\* create_appeal_task, open_chat) are taken by their result.
Handlers == 1..NHandlers
Users == {"u1", "u2"}
\* the asyncio.Lock objects made for one user; 0 is "no lock"
LockIds == 1..NHandlers

\* fn: the handler function; lock: the lock the coroutine references;
\* failed: the creation of a task has failed; prompted: the user has been
\* sent the text that asks to try again
Handler0 ==
  [pc |-> "idle", fn |-> "none", user |-> "u1", lock |-> 0,
   failed |-> FALSE, prompted |-> FALSE]

\* some coroutine holds a reference to the lock: the WeakValueDictionary
\* keeps its entry
Referenced_never(u, l) == FALSE
Referenced(u, l) ==
  \E h \in Handlers : handler[h].user = u /\ handler[h].lock = l

\* `lock = asyncio.Lock()`: an object that nothing refers to yet
NewLock(u) ==
  CHOOSE l \in LockIds :
     /\ ~(\E h \in Handlers : handler[h].user = u /\ handler[h].lock = l)
     /\ \A k \in LockIds :
           ~(\E h \in Handlers : handler[h].user = u /\ handler[h].lock = k) => l <= k

\* get_user_lock(tg_id): the body under _locks_map_guard has no await
get_user_lock(u) == IF user_locks[u] # 0 THEN user_locks[u] ELSE NewLock(u)

\* the handler ends (it returns, or an exception leaves it): `async with
\* lock` releases the lock, and the reference to it dies with the coroutine
\* (a handler that failed to create a task is seen once more as it leaves)
Leave(r) == IF r.failed THEN [r EXCEPT !.pc = "leave", !.lock = 0] ELSE Handler0
Release(h) ==
  [u \in Users |-> [l \in LockIds |-> IF held[u][l] = h THEN 0 ELSE held[u][l]]]

\* the code of message_text_handler under `async with lock`
Section == {"check_user", "answer", "check_appeal", "create_appeal", "open_chat"}

\* an unreferenced entry of _user_locks is reclaimed
reclaim(u) ==
  /\ user_locks[u] # 0
  /\ ~Referenced(u, user_locks[u])
  /\ user_locks' = [user_locks EXCEPT ![u] = 0]
  /\ reclaimed' = TRUE
  /\ UNCHANGED <<handler, fsm, held>>
  /\ UNCHANGED <<apiVars, hookVars, mediaVars, sigcheck, fwd, singles, commented>>

\* message_text_handler (StateFilter(None)) up to its first await that waits
message_text_handler(h, u) ==
  /\ handler[h].pc = "idle"
  /\ fsm[u] = "none"
  /\ LET lk == get_user_lock(u)
         r == [Handler0 EXCEPT !.fn = "message_text_handler", !.user = u,
                               !.lock = lk]
     IN /\ user_locks' = [user_locks EXCEPT ![u] = lk]
        /\ IF held[u][lk] = 0
           THEN /\ held' = [held EXCEPT ![u][lk] = h]
                /\ handler' = [handler EXCEPT ![h] = [r EXCEPT !.pc = "check_user"]]
           ELSE /\ handler' = [handler EXCEPT ![h] = [r EXCEPT !.pc = "wait_lock"]]
                /\ UNCHANGED held
  /\ UNCHANGED <<fsm, reclaimed>>
  /\ UNCHANGED <<apiVars, hookVars, mediaVars, sigcheck, fwd, singles, commented>>

\* `async with lock`: a waiting handler gets the lock
message_text_handler_acquire(h) ==
  /\ handler[h].pc = "wait_lock"
  /\ held[handler[h].user][handler[h].lock] = 0
  /\ held' = [held EXCEPT ![handler[h].user][handler[h].lock] = h]
  /\ handler' = [handler EXCEPT ![h].pc = "check_user"]
  /\ UNCHANGED <<fsm, user_locks, reclaimed>>
  /\ UNCHANGED <<apiVars, hookVars, mediaVars, sigcheck, fwd, singles, commented>>

\* check_api_element on the client form has ended: the user with fields, the
\* user without fields, no user (or 403), or an error that leaves the handler
message_text_handler_user(h, res) ==
  /\ handler[h].pc = "check_user"
  /\ res \in {"found", "nofields", "none", "raise"}
  /\ IF res = "raise"
     THEN /\ handler' = [handler EXCEPT ![h] = Handler0]
          /\ held' = Release(h)
     ELSE /\ handler' = [handler EXCEPT ![h].pc =
                           IF res = "found" THEN "check_appeal" ELSE "answer"]
          /\ UNCHANGED held
  /\ UNCHANGED <<fsm, user_locks, reclaimed>>
  /\ UNCHANGED <<apiVars, hookVars, mediaVars, sigcheck, fwd, singles, commented>>

\* `await message.answer(...)` and return, under the lock
message_text_handler_answer(h) ==
  /\ handler[h].pc = "answer"
  /\ handler' = [handler EXCEPT ![h] = Leave(@)]
  /\ held' = Release(h)
  /\ UNCHANGED <<fsm, user_locks, reclaimed>>
  /\ UNCHANGED <<apiVars, hookVars, mediaVars, sigcheck, fwd, singles, commented>>

\* check_api_element on the appeal form has ended: a task, no task, or an
\* error that leaves the handler
message_text_handler_appeal(h, res) ==
  /\ handler[h].pc = "check_appeal"
  /\ res \in {"task", "none", "raise"}
  /\ CASE res = "task" ->
             /\ handler' = [handler EXCEPT ![h].pc = "transfer"]
             /\ held' = Release(h)
       [] res = "none" ->
             /\ handler' = [handler EXCEPT ![h].pc = "create_appeal"]
             /\ UNCHANGED held
       [] res = "raise" ->
             /\ handler' = [handler EXCEPT ![h] = Handler0]
             /\ held' = Release(h)
  /\ UNCHANGED <<fsm, user_locks, reclaimed>>
  /\ UNCHANGED <<apiVars, hookVars, mediaVars, sigcheck, fwd, singles, commented>>

\* create_appeal_task has ended: a task with an id, {} (no id), or it raised
\* after the retries of api_request
message_text_handler_create(h, res) ==
  /\ handler[h].pc = "create_appeal"
  /\ res \in {"ok", "noid", "raise"}
  /\ CASE res = "ok" ->
             /\ handler' = [handler EXCEPT ![h].pc = "open_chat"]
             /\ UNCHANGED held
       [] res = "noid" ->
             \* await message.answer("Ошибка при создании обращения ...")
             /\ handler' = [handler EXCEPT ![h] =
                              [@ EXCEPT !.pc = "answer", !.failed = TRUE,
                                        !.prompted = TRUE]]
             /\ UNCHANGED held
       [] res = "raise" ->
             \* nothing catches the exception
             /\ handler' = [handler EXCEPT ![h] = Leave([@ EXCEPT !.failed = TRUE])]
             /\ held' = Release(h)
  /\ UNCHANGED <<fsm, user_locks, reclaimed>>
  /\ UNCHANGED <<apiVars, hookVars, mediaVars, sigcheck, fwd, singles, commented>>

\* open_chat has returned or raised
message_text_handler_open_chat(h, ok) ==
  /\ handler[h].pc = "open_chat"
  /\ handler[h].fn = "message_text_handler"
  /\ handler' = [handler EXCEPT ![h] =
                   IF ok THEN [@ EXCEPT !.pc = "transfer"] ELSE Handler0]
  /\ held' = Release(h)
  /\ UNCHANGED <<fsm, user_locks, reclaimed>>
  /\ UNCHANGED <<apiVars, hookVars, mediaVars, sigcheck, fwd, singles, commented>>

\* process_media_group or process_single_comment has returned
message_text_handler_transfer(h) ==
  /\ handler[h].pc = "transfer"
  /\ handler' = [handler EXCEPT ![h] = Handler0]
  /\ UNCHANGED <<fsm, user_locks, held, reclaimed>>
  /\ UNCHANGED <<apiVars, hookVars, mediaVars, sigcheck, fwd, singles, commented>>

\* the coroutine of a handler that failed to create a task is gone
handler_leave(h) ==
  /\ handler[h].pc = "leave"
  /\ handler' = [handler EXCEPT ![h] = Handler0]
  /\ UNCHANGED <<fsm, user_locks, held, reclaimed>>
  /\ UNCHANGED <<apiVars, hookVars, mediaVars, sigcheck, fwd, singles, commented>>

\* register_callback_handler: the user pressed "register"
register_callback_handler(u) ==
  /\ fsm[u] = "none"
  /\ fsm' = [fsm EXCEPT ![u] = "input_fullname"]
  /\ UNCHANGED <<handler, user_locks, held, reclaimed>>
  /\ UNCHANGED <<apiVars, hookVars, mediaVars, sigcheck, fwd, singles, commented>>

\* input_fullname_handler on a text message
input_fullname_handler(u) ==
  /\ fsm[u] = "input_fullname"
  /\ fsm' = [fsm EXCEPT ![u] = "input_telephone"]
  /\ UNCHANGED <<handler, user_locks, held, reclaimed>>
  /\ UNCHANGED <<apiVars, hookVars, mediaVars, sigcheck, fwd, singles, commented>>

\* input_telephone_handler on a text message, up to `await create_user_task`
input_telephone_handler(h, u) ==
  /\ handler[h].pc = "idle"
  /\ fsm[u] = "input_telephone"
  /\ handler' = [handler EXCEPT ![h] =
                   [Handler0 EXCEPT !.fn = "input_telephone_handler", !.user = u,
                                    !.pc = "create_user"]]
  /\ UNCHANGED <<fsm, user_locks, held, reclaimed>>
  /\ UNCHANGED <<apiVars, hookVars, mediaVars, sigcheck, fwd, singles, commented>>

\* create_user_task has ended: a task with an id, {} (no id), or it raised
input_telephone_handler_user(h, res) ==
  /\ handler[h].pc = "create_user"
  /\ res \in {"ok", "noid", "raise"}
  /\ handler' = [handler EXCEPT ![h] =
                   IF res = "ok" THEN [@ EXCEPT !.pc = "create_appeal_reg"]
                   ELSE [@ EXCEPT !.pc = "clear", !.failed = TRUE, !.prompted = TRUE]]
  /\ UNCHANGED <<fsm, user_locks, held, reclaimed>>
  /\ UNCHANGED <<apiVars, hookVars, mediaVars, sigcheck, fwd, singles, commented>>

\* `await message.answer(<error>)`, `await state.clear()` and return; or
\* `await state.clear()` at the end of the handler
input_telephone_handler_clear(h) ==
  /\ handler[h].pc = "clear"
  /\ fsm' = [fsm EXCEPT ![handler[h].user] = "none"]
  /\ handler' = [handler EXCEPT ![h] = Leave(@)]
  /\ UNCHANGED <<user_locks, held, reclaimed>>
  /\ UNCHANGED <<apiVars, hookVars, mediaVars, sigcheck, fwd, singles, commented>>

\* create_appeal_task has ended in input_telephone_handler
input_telephone_handler_appeal(h, res) ==
  /\ handler[h].pc = "create_appeal_reg"
  /\ res \in {"ok", "noid", "raise"}
  /\ handler' = [handler EXCEPT ![h] =
       CASE res = "ok" -> [@ EXCEPT !.pc = "open_chat_reg"]
         \* await message.answer("Ошибка при создании обращения ...") and return
         [] res = "noid" -> Leave([@ EXCEPT !.failed = TRUE, !.prompted = TRUE])
         \* nothing catches the exception
         [] res = "raise" -> Leave([@ EXCEPT !.failed = TRUE])]
  /\ UNCHANGED <<fsm, user_locks, held, reclaimed>>
  /\ UNCHANGED <<apiVars, hookVars, mediaVars, sigcheck, fwd, singles, commented>>

\* open_chat has returned (then `await state.clear()`) or raised
input_telephone_handler_open_chat(h, ok) ==
  /\ handler[h].pc = "open_chat_reg"
  /\ handler' = [handler EXCEPT ![h] =
                   IF ok THEN [@ EXCEPT !.pc = "clear"] ELSE Handler0]
  /\ UNCHANGED <<fsm, user_locks, held, reclaimed>>
  /\ UNCHANGED <<apiVars, hookVars, mediaVars, sigcheck, fwd, singles, commented>>

NextHandlers ==
  \/ \E u \in Users : reclaim(u)
  \/ \E h \in Handlers, u \in Users : message_text_handler(h, u)
  \/ \E h \in Handlers : message_text_handler_acquire(h)
  \/ \E h \in Handlers, res \in {"found", "nofields", "none", "raise"} :
        message_text_handler_user(h, res)
  \/ \E h \in Handlers : message_text_handler_answer(h)
  \/ \E h \in Handlers, res \in {"task", "none", "raise"} :
        message_text_handler_appeal(h, res)
  \/ \E h \in Handlers, res \in {"ok", "noid", "raise"} :
        message_text_handler_create(h, res)
  \/ \E h \in Handlers, ok \in BOOLEAN : message_text_handler_open_chat(h, ok)
  \/ \E h \in Handlers : message_text_handler_transfer(h)
  \/ \E h \in Handlers : handler_leave(h)
  \/ \E u \in Users : register_callback_handler(u)
  \/ \E u \in Users : input_fullname_handler(u)
  \/ \E h \in Handlers, u \in Users : input_telephone_handler(h, u)
  \/ \E h \in Handlers, res \in {"ok", "noid", "raise"} :
        input_telephone_handler_user(h, res)
  \/ \E h \in Handlers : input_telephone_handler_clear(h)
  \/ \E h \in Handlers, res \in {"ok", "noid", "raise"} :
        input_telephone_handler_appeal(h, res)
  \/ \E h \in Handlers, ok \in BOOLEAN : input_telephone_handler_open_chat(h, ok)

InitBot ==
  /\ sigcheck = [header_sig |-> NoHeader, body |-> "notjson", called |-> FALSE,
                 hmac |-> FALSE, result |-> FALSE]
  /\ fwd = Fwd0
  /\ singles = {}
  /\ commented = {}
  /\ handler = [h \in Handlers |-> Handler0]
  /\ fsm = [u \in Users |-> "none"]
  /\ user_locks = [u \in Users |-> 0]
  /\ held = [u \in Users |-> [l \in LockIds |-> 0]]
  /\ reclaimed = FALSE

Init == InitApi /\ InitHook /\ InitMedia /\ InitBot

NextApi ==
  \E c \in Clients : client_call(c) \/ ApiStep(c)

SpecApi == Init /\ [][NextApi]_vars

SpecWebhook == Init /\ [][NextWebhook]_vars

SpecShutdown == Init /\ [][NextShutdown]_vars

\* The event loop runs the worker whenever it can go on, and every call it
\* awaits is answered (with a result, an error or a timeout): weak fairness
\* of the worker's steps.
SpecRunning == Init /\ [][NextRunning]_vars /\ WF_vars(WorkerStep)

SpecForward == Init /\ [][NextForward]_vars

SpecFlush == Init /\ [][NextFlush]_vars

SpecMedia == Init /\ [][NextMedia]_vars

NextSig ==
  \E header_sig \in Headers, body \in EventKinds :
     verify_signature_call(header_sig, body)

SpecSig == Init /\ [][NextSig]_vars

SpecSingle == Init /\ [][NextSingle]_vars

SpecHandlers == Init /\ [][NextHandlers]_vars

SpecTransfer == Init /\ [][NextTransfer]_vars

\* ------------------------------------------------------------------ claims

\* call c holds a token get_token returned from the shared TokenManager
Returned(c) == call[c].tm = "shared" /\ call[c].pc = "req_inflight"

\* the step in which get_token returns to call c
Returns(c) ==
  /\ call[c].tm = "shared"
  /\ call[c].pc \in {"gt_start", "gt_wait", "rf_close"}
  /\ call'[c].pc = "req_inflight"

\* the get_token call of c starts in this step
StartsNow(c) == call[c].pc = "gt_start" /\ call[c].gt = 1

\* tokens that were issued before the latest 401 that came before the
\* running get_token call of c started
FloorOf(c) == IF StartsNow(c) THEN hist.last401 ELSE call[c].floor

\* the running get_token call of c is the first to start after a 401
NextAfter401(c) == IF StartsNow(c) THEN hist.pend401 ELSE call[c].nxt

\* the step in which an api_request attempt receives status s
Receives(s) == \E c \in Slots : api_request_response(c, s)

\* C1: with an empty cache and an auth endpoint that answers successfully
\* (no auth failure, no invalidation so far), however many get_token calls
\* run concurrently, at most one POST /auth is sent on the shared
\* TokenManager and every call returns the token that request produced.
C1_SingleFlight ==
  (~hist.authFail /\ ~hist.inval) =>
     /\ authReqs["shared"] <= 1
     /\ \A c \in Clients : Returned(c) =>
           /\ authReqs["shared"] = 1
           /\ call[c].tok = 1
           /\ call[c].tok = token["shared"]

\* C1 witness: all callers hold the token of the single request, and one of
\* them had to wait for the lock while the refresh was running
C1_Witness ==
  /\ ~hist.authFail /\ ~hist.inval
  /\ authReqs["shared"] = 1
  /\ \A c \in Clients : Returned(c) /\ call[c].tok = 1
  /\ hist.coalesced

\* C2 as stated: the first get_token call that starts after a 401 sends a
\* POST /auth of its own before it returns
C2_NextCallRefreshes ==
  [][\A c \in Clients : (Returns(c) /\ NextAfter401(c)) => call[c].posted]_vars

\* C2 amended: the step that receives a 401 leaves the shared cache empty,
\* and a get_token call that starts after a 401 never returns a token that
\* was issued before that 401 (the token is one an auth request answered
\* after the 401 produced, sent by this call or by a concurrent one)
C2_NoStaleToken ==
  /\ [][Receives(401) => token'["shared"] = 0]_vars
  /\ [][\A c \in Clients : Returns(c) => call'[c].tok > FloorOf(c)]_vars

\* C2 witness: a token was issued, a 401 came, and the first call after it
\* holds a newer token that it did not request itself
C2_Witness ==
  /\ hist.reused
  /\ hist.last401 >= 1
  /\ \E c \in Clients : Returned(c) /\ call[c].tok > hist.last401

\* C4: a call of api_request sends at most 3 requests to its endpoint; a
\* success answer ends the call with that result whatever attempt it is
\* (also the third, after two transient failures); a failed third attempt
\* fails the call, and a failed call sends nothing more.
C4_ThreeAttempts ==
  /\ [](\A c \in Clients :
          /\ call[c].sends <= 3
          /\ call[c].att <= 3
          /\ (call[c].res = "retry_error" => call[c].pc = "failed" /\ call[c].att = 3)
          /\ (call[c].pc = "done" <=> call[c].res = "ok"))
  /\ [][\A c \in Clients :
          /\ api_request_response(c, 200) => call'[c].pc = "done"
          /\ (call[c].att = 3 /\ call[c].pc = "req_inflight"
                 /\ call'[c] # call[c] /\ call'[c].pc # "done")
               => call'[c].pc = "failed"
          /\ call[c].pc = "failed" => call'[c] = call[c]]_vars

\* C4 witness: two failed attempts, then the third attempt succeeded
C4_Witness ==
  \E c \in Clients :
     call[c].pc = "done" /\ call[c].att = 3 /\ call[c].sends = 3 /\ faults = 2

\* C5: a 403 answer fails the call at once: no further request is sent for
\* it, and the cached token is left as it was.
C5_NoRetryOn403 ==
  /\ [][\A c \in Clients : api_request_response(c, 403) =>
           /\ call'[c].pc = "failed"
           /\ call'[c].res = "http_error"
           /\ call'[c].sends = call[c].sends
           /\ token' = token]_vars
  /\ [](\A c \in Clients : call[c].res = "http_error" => call[c].pc = "failed")
  /\ [][\A c \in Clients : call[c].res = "http_error" => call'[c] = call[c]]_vars

\* C5 witness: a first attempt answered 403 has ended the call after one
\* request, with the token still cached
C5_Witness ==
  \E c \in Clients :
     /\ call[c].pc = "failed" /\ call[c].res = "http_error"
     /\ call[c].att = 1 /\ call[c].sends = 1
     /\ token["shared"] # 0

\* C3 as stated: there is one token cache, so a POST /auth is sent only when
\* the cache of the shared TokenManager is empty, never while it holds a token
C3_OneTokenCache ==
  [][authReqs' # authReqs => token["shared"] = 0]_vars

\* C6 as stated: a validly signed request that finds the queue full is
\* answered with a server error; its handler does not wait for a free slot
\* nor answer success
C6_SaturationError ==
  \A h \in Reqs : req[h].full => (req[h].pc = "done" /\ req[h].status >= 500)

IsPrefix(a, b) == Len(a) <= Len(b) /\ \A i \in 1..Len(a) : a[i] = b[i]
InQueue(h) == \E i \in 1..Len(webhook_queue) : webhook_queue[i].id = h
Times(h, q) == Cardinality({i \in 1..Len(q) : q[i] = h})

\* C7: the worker gets the events in the order they were put; when it gets
\* an event the processing of the one before has ended with all its calls;
\* never are two events in processing.
C7_InOrderOneAtATime ==
  /\ [](IsPrefix(deq, enq))
  /\ [](Cardinality(inproc) <= 1)
  /\ [](inproc # {} => inproc = {deq[Len(deq)]} /\ worker.ev = deq[Len(deq)])
  /\ [](call[WSlot].pc # "idle" => inproc # {})
  /\ [][deq' # deq => (inproc = {} /\ call[WSlot].pc = "idle" /\ worker.pc = "get")]_vars

\* C7 witness: the second event is in processing, with a CRM call running,
\* after the first one ended on a CRM or chat call of its own
C7_Witness ==
  /\ Len(deq) = 2 /\ Len(enq) = 3
  /\ outcome[deq[1]] \in {"resp200", "resp500"}
  /\ faults > 0
  /\ inproc = {deq[2]}
  /\ call[WSlot].pc = "req_inflight"

\* C8: an event is got and processed once; when its processing fails it is
\* not put back, and the worker stays alive and waits for the next event.
C8_ConsumedOnce ==
  /\ [](\A h \in Reqs : Times(h, deq) <= 1 /\ Times(h, enq) <= 1)
  /\ [](\A h \in Reqs : Times(h, enq) = 1 =>
           /\ (InQueue(h) <=> Times(h, deq) = 0)
           /\ (Times(h, deq) = 1 <=> (h \in inproc \/ outcome[h] # "none"))
           /\ ~(h \in inproc /\ outcome[h] # "none"))
  /\ [](worker.pc # "dead")
  /\ [][\A h \in Reqs : outcome[h] # "none" => outcome'[h] = outcome[h]]_vars
  /\ [][\A h \in Reqs : (outcome[h] = "none" /\ outcome'[h] # "none")
            => (worker'.pc = "get" /\ ~InQueue(h)')]_vars

\* C8 witness: the CRM call of one event failed for good, and the worker has
\* processed the next event
C8_Witness ==
  /\ Len(deq) >= 2
  /\ outcome[deq[1]] = "raised"
  /\ faults > 0
  /\ outcome[deq[2]] = "resp200"
  /\ worker.pc = "get"

Running == {t \in tasks : t.pc # "sleep"}
Ids(q) == {q[i].id : i \in 1..Len(q)}
\* the messages of a burst as process_media_group was given them
Msgs(q) == [i \in 1..Len(q) |-> [id |-> q[i].id, kind |-> q[i].kind]]

\* C9: the first message of a key with no pending entry arms one timer of 3
\* time units counted from that message; later messages of the key join the
\* same buffer in arrival order and neither arm nor reset a timer; the timer
\* fires 3 units after the first message and its one flush takes all of them.
C9_OneTimerFromFirstMessage ==
  /\ [](\A k \in Keys :
          /\ media_groups_data[k] = Msgs(arrived[k])
          /\ arrived[k] # << >> =>
                /\ Cardinality(Sleeping(k)) = 1
                /\ \A t \in Sleeping(k) : t.left + age[k] = 3 /\ t.id = arrived[k][1].id)
  /\ [][nmsg' # nmsg =>
          \A k \in Keys : Sleeping(k) # {} => Sleeping(k)' = Sleeping(k)]_vars
  /\ [][\A k \in Keys : (k \in processing_tasks /\ k \notin processing_tasks') =>
          /\ age[k] = 3
          /\ arrived[k] # << >>
          /\ Len(flushes') = Len(flushes) + 1
          /\ flushes'[Len(flushes')].key = k
          /\ flushes'[Len(flushes')].msgs = Msgs(arrived[k])]_vars

\* C9 witness: three messages of one key came at times 0, 1 and 2 and one
\* flush took the three
C9_Witness ==
  /\ nmsg = 3
  /\ Len(flushes) = 1
  /\ Len(flushes[1].msgs) = 3
  /\ flushes[1].at = <<0, 1, 2>>
  /\ \E t \in Running : t.id = 1 /\ Len(t.buf) = 3
  /\ \A k \in Keys : arrived[k] = << >>

\* C10: a key has at most one timer armed, exactly while it is marked and
\* has a buffer; the step in which the timer fires removes the buffer and
\* the mark together, before any file of the flush is processed; a message
\* that comes later opens a new buffer and a new timer and never reaches the
\* buffer of a flush that is running.
C10_PopBeforeProcess ==
  /\ [](\A k \in Keys :
          /\ Cardinality(Sleeping(k)) <= 1
          /\ (k \in processing_tasks <=> Sleeping(k) # {})
          /\ (k \in processing_tasks <=> media_groups_data[k] # << >>))
  /\ [](\A t \in Running : Ids(t.buf) \cap Ids(media_groups_data[t.key]) = {})
  /\ [][\A k \in Keys : (k \in processing_tasks /\ k \notin processing_tasks') =>
          /\ media_groups_data'[k] = << >>
          /\ \A t \in Running' \ Running : t.files = << >> /\ t.buf = media_groups_data[k]]_vars
  /\ [][nmsg' # nmsg => (Running' = Running /\ flushes' = flushes)]_vars
  /\ [][\A k \in Keys :
          (nmsg' # nmsg /\ media_groups_data[k] = << >> /\ media_groups_data'[k] # << >>)
          => /\ Sleeping(k) = {}
             /\ Cardinality(Sleeping(k)') = 1
             /\ \A u \in Sleeping(k)' : u.left = 3 /\ u.id = nmsg']_vars

\* C10 witness: a message of the key came while its flush was running, and
\* the timer of its new buffer has fired while that flush is still running
C10_Witness ==
  /\ Len(flushes) = 2
  /\ flushes[1].key = flushes[2].key
  /\ Cardinality({t \in Running : t.key = flushes[1].key}) = 2

\* the step in which process_webhook gets an event whose body is b
Gets(b) == webhook_worker_get /\ QueueGet(webhook_queue).kind = b

\* C11 as stated: processing a task-created event sends exactly one "open
\* chat" comment request to the CRM.
C11_ExactlyOneRequest ==
  [][process_webhook_open_chat => call[WSlot].sends = 1]_vars

\* C11: processing a task-created event makes exactly one open_chat call,
\* which is one api_request call: it sends at most one comment request per
\* attempt and at most ApiAttempts requests, at least one when it succeeds,
\* and none when no token could be got; the event causes no call to the chat
\* platform and no other CRM call.
C11_OneOpenChatCall ==
  /\ [][Gets("created") =>
          /\ worker'.pc = "open_chat"
          /\ call'[WSlot] = [Call0 EXCEPT !.pc = "gt_start"]]_vars
  /\ [][worker.pc = "open_chat" =>
          /\ worker'.pc \in {"open_chat", "get"}
          /\ worker'.pc = "open_chat" =>
                (worker'.ev = worker.ev /\ call'[WSlot].pc # "idle"
                 /\ call'[WSlot].mode = "api" /\ call'[WSlot].tm = "shared")
          /\ chat' = chat]_vars
  /\ [][process_webhook_open_chat =>
          LET r == call[WSlot]
          IN /\ r.sends <= r.att /\ r.att <= ApiAttempts
             /\ r.pc = "done" => r.sends >= 1
             /\ outcome'[worker.ev] = (IF r.pc = "done" THEN "resp200" ELSE "raised")
             /\ worker.ev \notin chat']_vars

\* C11 witness: the open_chat call of a task-created event has succeeded on
\* its second comment request, with no call to the chat platform
C11_Witness ==
  /\ worker.pc = "open_chat"
  /\ call[WSlot].pc = "done" /\ call[WSlot].sends = 2
  /\ worker.ev \notin chat

\* the header is the digest, each letter in either case
SameUpToCase(x, d) ==
  /\ Len(x) = Len(d)
  /\ \A i \in 1..Len(d) : x[i] = d[i] \/ x[i] = UpperChar(d[i])

\* headers that differ from the digest d in exactly one position
OneCharOff(x, d) ==
  /\ Len(x) = Len(d)
  /\ Cardinality({i \in 1..Len(d) : x[i] # d[i]}) = 1

\* C12 as stated: verify_signature accepts a header only when it equals the
\* lowercase hex digest of the body; a header that differs from it in one
\* character, a change of letter case included, is rejected.
C12_ExactDigestOnly ==
  sigcheck.called =>
     (sigcheck.result <=> (sigcheck.header_sig = Hdr(hexdigest(sigcheck.body))))

\* C12: verify_signature accepts a header exactly when its lowercase form
\* equals the lowercase hex digest of the body: a header that differs from
\* the digest in one character is rejected unless the difference is the
\* letter case of a hex digit; a missing or empty header is rejected without
\* computing the HMAC.
C12_DigestUpToCase ==
  sigcheck.called =>
     LET h == sigcheck.header_sig
         d == hexdigest(sigcheck.body)
     IN /\ sigcheck.result <=> (h.some /\ SameUpToCase(h.s, d))
        /\ (h.some /\ OneCharOff(h.s, d) /\ ~SameUpToCase(h.s, d)) => ~sigcheck.result
        /\ (~h.some \/ h.s = << >>) => (~sigcheck.result /\ ~sigcheck.hmac)

\* C12 witness: a header one character off the digest, not by letter case,
\* has been rejected after the HMAC was computed
C12_Witness ==
  /\ sigcheck.called /\ sigcheck.hmac /\ ~sigcheck.result
  /\ sigcheck.header_sig.some
  /\ OneCharOff(sigcheck.header_sig.s, hexdigest(sigcheck.body))
  /\ ~SameUpToCase(sigcheck.header_sig.s, hexdigest(sigcheck.body))

\* the step in which POST /webhook runs with the bot's User-Agent, body b
\* and signature header sig
Posted(h, sig, b) == pyrus_webhook(h, "Pyrus-Bot-4", sig, b)

\* the handler of request h has put its event on the queue or waits to
Accepted(r) == r.pc = "blocked" \/ (r.pc = "done" /\ r.status = 200)

\* C13 as stated: a request signed with "sha1=" followed by the digest of its
\* body is accepted as the one signed with the bare digest is.
C13_PrefixAccepted ==
  [][\A h \in Reqs, b \in EventKinds :
       Posted(h, Hdr(<<"sha1=">> \o hexdigest(b)), b) => Accepted(req'[h])]_vars

\* the two checks of the endpoint, stated on the inputs
BotAgent(ua) == ua \notin {"none", "curl/8"}
ValidSig(sig, b) == sig \in {Hdr(hexdigest(b)), Hdr(upper(hexdigest(b)))}

\* C14: a request without the bot's User-Agent is answered 400 whatever its
\* signature; one with it and a missing or invalid signature is answered 500;
\* neither puts anything on the queue, and every event put on the queue
\* comes from a request that passed both checks.
C14_FailClosed ==
  /\ [][\A h \in Reqs : (req[h].pc = "new" /\ req'[h].pc # "new") =>
          \A ua \in UserAgents, b \in EventKinds : \A sig \in Sigs(b) :
          pyrus_webhook(h, ua, sig, b) =>
             /\ ~BotAgent(ua) =>
                   (req'[h].pc = "done" /\ req'[h].status = 400
                    /\ UNCHANGED <<webhook_queue, enq>>)
             /\ (BotAgent(ua) /\ ~ValidSig(sig, b)) =>
                   (req'[h].pc = "done" /\ req'[h].status = 500
                    /\ UNCHANGED <<webhook_queue, enq>>)
             /\ (BotAgent(ua) /\ ValidSig(sig, b)) => Accepted(req'[h])]_vars
  /\ [][\A h \in Reqs : (req[h].pc # "blocked" /\ req'[h].pc = "blocked") =>
          \E ua \in UserAgents, b \in EventKinds : \E sig \in Sigs(b) :
             pyrus_webhook(h, ua, sig, b) /\ BotAgent(ua) /\ ValidSig(sig, b)]_vars
  /\ [][enq' # enq =>
          \E h \in Reqs :
             /\ enq' = Append(enq, h)
             /\ webhook_queue' = Append(webhook_queue, webhook_queue'[Len(webhook_queue')])
             /\ webhook_queue'[Len(webhook_queue')].id = h
             /\ \/ req[h].pc = "blocked"
                \/ \E ua \in UserAgents, b \in EventKinds : \E sig \in Sigs(b) :
                      pyrus_webhook(h, ua, sig, b) /\ BotAgent(ua) /\ ValidSig(sig, b)]_vars
  /\ [](\A h \in Reqs : (Times(h, deq) > 0 \/ InQueue(h)) => Times(h, enq) = 1)

\* C14 witness: of three requests one was answered 400, one 500, and the
\* third is the only event the worker got
C14_Witness ==
  /\ \E h \in Reqs : req[h].pc = "done" /\ req[h].status = 400
  /\ \E h \in Reqs : req[h].pc = "done" /\ req[h].status = 500
  /\ Len(enq) = 1 /\ deq = enq

Failed(h) == outcome[h] \in {"raised422", "raised500", "raised", "resp500"}

\* C15: a request whose event was put on the queue is answered 200, and the
\* answer stays 200 however the processing of the event ends.
C15_AckOnceQueued ==
  /\ [](\A h \in Reqs : Times(h, enq) > 0 => (req[h].pc = "done" /\ req[h].status = 200))
  /\ [][\A h \in Reqs : req[h].pc = "done" => req'[h] = req[h]]_vars

\* C15 witness: the processing of one event failed on the JSON parse and
\* that of another on a CRM, token or chat call; both requests were
\* answered 200
C15_Witness ==
  \E g, h \in Reqs :
     /\ outcome[g] = "raised422" /\ outcome[h] \in {"raised", "resp500"}
     /\ req[g].status = 200 /\ req[h].status = 200

\* C16 as stated: the caller gets 422 for a signed body that is not JSON and
\* 500 for a signed body that parses and lacks a required field.
C16_CallerSeesParseErrors ==
  \A h \in Reqs :
     /\ outcome[h] = "raised422" => req[h].status = 422
     /\ outcome[h] = "raised500" => req[h].status = 500

\* process_file is running for a message: bot.get_file, bot.download_file or
\* the upload of get_unique_file_id has been called
FilePcs == {"get_file", "download_file", "upload"}

\* C17: for a message whose file is larger than MAX_FILE_SIZE none of
\* bot.get_file, bot.download_file and the CRM upload is ever called: in
\* process_single_comment the call goes to its error reply, in a media-group
\* flush the loop skips the message, and no comment carries its file.
C17_NoFetchWhenOversize ==
  /\ \A s \in singles :
        s.kind = "big" => (s.pc = "reply" /\ s.replied /\ ~s.file /\ s.sends = 0)
  /\ \A t \in tasks :
        /\ t.pc \in FilePcs => t.buf[t.i].kind # "big"
        /\ \A j \in 1..Len(t.files), i \in 1..Len(t.buf) :
              t.buf[i].id = t.files[j] => t.buf[i].kind # "big"

\* C17 witness: a flush has skipped an oversize message and is uploading the
\* file of a later one, while an oversize single message waits in its error
\* reply
C17_Witness ==
  /\ \E t \in tasks :
        t.pc = "upload" /\ \E i \in 1..(t.i - 1) : t.buf[i].kind = "big"
  /\ \E s \in singles : s.kind = "big" /\ s.pc = "reply"

\* the call s is no longer running after the step
Ended(s) == s \in singles /\ \A u \in singles' : u.id # s.id

\* C18: a process_single_comment call ends either with its one
\* send_comment_in_pyrus call made and succeeded and no error reply, or with
\* an error reply to the user and no successful comment; it never ends with
\* neither and never calls send_comment_in_pyrus twice.
C18_OneCommentOrErrorReply ==
  /\ [](\A s \in singles :
          /\ s.sends <= 1 /\ s.id \notin commented
          /\ s.pc = "send" => (s.sends = 1 /\ ~s.replied)
          /\ s.pc = "reply" <=> s.replied)
  /\ [][\A s \in singles : Ended(s) =>
          \/ s.pc = "send" /\ s.sends = 1 /\ ~s.replied /\ s.id \in commented'
          \/ s.pc = "reply" /\ s.replied /\ s.sends <= 1 /\ s.id \notin commented']_vars
  /\ [][\A s \in singles : Ended(s) \/ \E u \in singles' : u.id = s.id /\ u.sends >= s.sends]_vars

\* C18 witness: one call has ended with its comment taken by the CRM, and
\* another, whose one send_comment_in_pyrus call failed, is in its error reply
C18_Witness ==
  /\ commented # {}
  /\ \E s \in singles : s.pc = "reply" /\ s.sends = 1 /\ s.file

\* C19 as stated: whenever the creation of the registration task or of the
\* appeal task has failed in a handler, the handler ends with the user
\* prompted to try again and with the user's RegistrationState reset to none.
C19_CreationFailureReported ==
  \A h \in Handlers :
     (handler[h].pc = "leave" /\ handler[h].failed) =>
        (handler[h].prompted /\ fsm[handler[h].user] = "none")

InSection(h) == handler[h].pc \in Section

\* C20: of the handlers of one user at most one at a time is in the code of
\* message_text_handler under the user's lock; all the handlers of the user
\* that reference a lock reference the lock of the user's entry, also after
\* entries have been reclaimed; a handler in that code holds its lock.
C20_OnePerUserInSection ==
  /\ \A g, h \in Handlers :
        (g # h /\ handler[g].user = handler[h].user) => ~(InSection(g) /\ InSection(h))
  /\ \A h \in Handlers :
        /\ handler[h].lock # 0 => user_locks[handler[h].user] = handler[h].lock
        /\ InSection(h) => held[handler[h].user][handler[h].lock] = h

\* C20 witness: after an entry was reclaimed, one handler of a user is in
\* the section and another handler of the same user waits for the same lock
C20_Witness ==
  /\ reclaimed
  /\ \E g, h \in Handlers :
        /\ g # h /\ handler[g].user = handler[h].user
        /\ handler[g].pc = "create_appeal" /\ handler[h].pc = "wait_lock"
        /\ handler[g].lock = handler[h].lock

\* C22: when an attempt of api_request that carried token T is answered 401
\* and the call is retried, the request of the retried attempt carries a
\* token that was issued after T, whatever the other calls do to the shared
\* cache in between; T is never sent again by that attempt.
C22_RetryCarriesNewerToken ==
  \A c \in Clients :
     (Returned(c) /\ call[c].t401 # 0) =>
        /\ call[c].att >= 2
        /\ call[c].tok > call[c].t401

\* C22 witness: the retried attempt of one call is in flight with a newer
\* token while a concurrent call still has a request in flight that
\* carries the token answered 401
C22_Witness ==
  \E c, d \in Clients :
     /\ c # d
     /\ Returned(c) /\ call[c].t401 # 0 /\ call[c].tok > call[c].t401
     /\ Returned(d) /\ call[d].tok = call[c].t401

\* the number of POST /auth the running get_token call of c has sent when a
\* request of its is in flight: every earlier attempt of get_token ended
\* with RefreshAttempts failed requests
AuthRequestsOf(c) == (call[c].gt - 1) * RefreshAttempts + call[c].rf

\* C23 as stated: a get_token call whose refresh keeps failing sends at most
\* 3 requests to the auth endpoint before it gives up
C23_AtMostThreeAuthRequests ==
  \A c \in Clients : call[c].pc = "rf_inflight" => AuthRequestsOf(c) <= 3

\* C24 as stated: when the POST /auth of a token refresh that an
\* api_request call triggered is answered 403, the call fails at once,
\* with that single request to the auth endpoint
C24_Auth403NotRetried ==
  [][\A c \in Clients :
        refresh_token_fail(c, 403) =>
           /\ call'[c].pc = "failed"
           /\ call[c].rf = 1 /\ call[c].gt = 1]_vars

\* the webhook worker has terminated and its calls with it
Terminated == worker.pc = "terminated" /\ call[WSlot] = Call0

\* C21: once the exit of lifespan has completed, the webhook worker has
\* terminated; from then on no event is got from the queue or processed
\* and no call to the CRM or the chat is made for one; an event that was
\* in processing when the worker was cancelled has finished or has been
\* abandoned, is not in the queue again and was put on it once only.
C21_CancelledAndAwaited ==
  /\ [](lifespan = "exited" =>
          /\ Terminated
          /\ inproc = {}
          /\ \A i \in 1..Len(deq) :
                /\ outcome[deq[i]] # "none"
                /\ ~InQueue(deq[i])
                /\ Times(deq[i], enq) = 1)
  /\ [][lifespan = "exited" =>
          UNCHANGED <<worker, webhook_queue, deq, inproc, outcome, chat,
                      count_triggered, call, authReqs>>]_vars
  /\ [][worker.pc = "terminated" => worker'.pc = "terminated" /\ deq' = deq]_vars

\* C21 witness: the exit has completed, the event in processing at the
\* cancellation was abandoned, and an event is left on the queue
C21_Witness ==
  /\ lifespan = "exited"
  /\ \E h \in Reqs : outcome[h] = "cancelled"
  /\ webhook_queue # << >>

\* process_webhook has been called on an event whose JSON has every
\* required value
WellFormed == fwd.pc # "idle" /\ fwd.ev.json /\ fwd.ev.missing = {}

\* C25: an event whose JSON lacks one of task, access_token, fields,
\* comments, event, task_id and create_date is discarded by the first step
\* of process_webhook: it ends with HTTPException(500), no request to the CRM
\* (open chat, auth, download) and no send to the chat is made for it, and
\* processing puts nothing on the queue.
C25_MalformedDiscarded ==
  /\ [](\A x \in RequiredFields :
          (fwd.pc # "idle" /\ fwd.ev.json /\ x \in fwd.ev.missing) =>
             /\ fwd.pc = "done"
             /\ fwd.outcome = "raised500"
             /\ fwd.crm = {}
             /\ fwd.calls = << >>
             /\ fwd.results = << >>)
  /\ [][fwd' # fwd => webhook_queue' = webhook_queue /\ enq' = enq]_vars

\* C25 witness: an event without create_date whose last comment is from
\* telegram and has a text and attachments has been discarded
C25_Witness ==
  /\ fwd.pc = "done"
  /\ fwd.ev.json /\ fwd.ev.missing = {"create_date"}
  /\ fwd.ev.channel = "telegram" /\ fwd.ev.text /\ fwd.ev.chat_id = "ok"
  /\ Len(fwd.ev.attachments) >= 1
  /\ fwd.outcome = "raised500"

RECURSIVE MediaOf(_)
MediaOf(calls) ==
  IF calls = << >> THEN << >> ELSE Head(calls).media \o MediaOf(Tail(calls))

Increasing(q) == \A i, j \in 1..Len(q) : i < j => q[i] < q[j]

\* C27: no send to the chat is made for an event while a download of one of
\* its attachments is running; an attachment that has no name, no url or
\* size, or is too large, and a download that fails, give an error entry
\* for that attachment and leave the other downloads as they are; when
\* send_message_to_telegram_chat has returned, the attachments handed to
\* send_media_group are exactly the ones whose download returned the
\* content, each once and in the order of the comment's attachment list.
C27_DownloadsThenSend ==
  /\ [](fwd.calls # << >> =>
          /\ Len(fwd.results) = Len(fwd.ev.attachments)
          /\ \A i \in 1..Len(fwd.results) : fwd.results[i] # "pending")
  /\ [][(fwd.pc = "token" /\ fwd'.results # << >>) =>
          \A i \in 1..Len(fwd.ev.attachments) :
             fwd'.results[i] = (IF fwd.ev.attachments[i] = "file"
                                THEN "pending" ELSE "error")]_vars
  /\ [][\A i \in 1..MaxAtt, ans \in DownloadAnswers :
          download_one(i, ans) =>
             /\ fwd'.results[i] = (IF ans = "bytes" THEN "content" ELSE "error")
             /\ \A j \in 1..Len(fwd.results) :
                   j # i => fwd'.results[j] = fwd.results[j]]_vars
  /\ []((fwd.pc = "done" /\ fwd.outcome = "resp200" /\ fwd.calls # << >>) =>
          /\ Increasing(MediaOf(fwd.calls))
          /\ {MediaOf(fwd.calls)[k] : k \in 1..Len(MediaOf(fwd.calls))}
               = {i \in 1..Len(fwd.results) : fwd.results[i] = "content"})

\* C27 witness: of three attachments the second download failed, and the
\* text and then the first and the third attachment have been sent
C27_Witness ==
  /\ fwd.pc = "done" /\ fwd.outcome = "resp200"
  /\ fwd.ev.attachments = <<"file", "file", "file">>
  /\ fwd.results = <<"content", "error", "content">>
  /\ fwd.calls = <<TextCall, MediaCall(<<1, 3>>)>>

\* the flush tasks past their sleep
Flushing == {t \in tasks : t.pc # "sleep"}
\* the task of t goes on in the next state
GoesOn(t) == \E u \in tasks' : u.id = t.id
After(t) == CHOOSE u \in tasks' : u.id = t.id
\* the messages (their indices in the buffer of t) the loop has dealt with
\* and whose file is among the uploaded ones
Kept(t) == {j \in 1..(t.i - 1) : \E k \in 1..Len(t.files) : t.files[k] = t.buf[j].id}
\* the ids of the messages with the indices in J, in buffer order
RECURSIVE InBufferOrder(_, _, _)
InBufferOrder(buf, J, j) ==
  IF j > Len(buf) THEN << >>
  ELSE (IF j \in J THEN <<buf[j].id>> ELSE << >>) \o InBufferOrder(buf, J, j + 1)

\* C28: a flush with a non-empty buffer goes through all its messages and
\* then makes one send_comment_in_pyrus call and ends.  The upload that
\* succeeds adds its message's reference after the ones before; a message
\* that is unsupported or too large is passed over and a failed get_file,
\* download or upload leaves the references as they are, and the loop goes
\* on with the next message.  The comment has the references of exactly the
\* messages that got through, in buffer order, and the caption of the first
\* message of the buffer (also when that message was skipped), or "...".
C28_OneCommentPerFlush ==
  /\ [](\A t \in Flushing :
          /\ t.buf # << >>
          /\ t.files = InBufferOrder(t.buf, Kept(t), 1)
          /\ \A j \in Kept(t) : IsFile(t.buf[j])
          /\ \A j \in 1..(t.i - 1) : ~IsFile(t.buf[j]) => j \notin Kept(t)
          /\ IF t.pc = "send"
             THEN /\ t.i = Len(t.buf) + 1
                  /\ t.comment.attachments = t.files
                  /\ t.comment.text = (IF t.buf[1].kind \in Captioned
                                       THEN <<t.buf[1].id>> ELSE Placeholder)
             ELSE /\ t.i \in 1..Len(t.buf) /\ IsFile(t.buf[t.i])
                  /\ t.comment = NoComment)
  /\ [][\A t \in tasks :
          /\ process_group_fire(t) /\ media_groups_data[t.key] # << >> => GoesOn(t)
          /\ process_group_file(t, TRUE) =>
                GoesOn(t) /\ After(t).files = Append(t.files, t.buf[t.i].id)
                          /\ After(t).i > t.i
          /\ (\/ process_group_get_file(t, FALSE)
              \/ process_group_download_file(t, FALSE)
              \/ process_group_file(t, FALSE)) =>
                GoesOn(t) /\ After(t).files = t.files /\ After(t).i > t.i
          /\ t.pc = "send" => (t \in tasks' \/ ~GoesOn(t))]_vars

\* C28 witness: the first message of the buffer, with a caption, has no
\* file that can be sent, the file of the second was uploaded and the third
\* failed; the comment has that caption and the second file
C28_Witness ==
  \E t \in tasks :
     /\ t.pc = "send"
     /\ Len(t.buf) = 3
     /\ t.buf[1].kind = "text_c" /\ IsFile(t.buf[2]) /\ IsFile(t.buf[3])
     /\ t.comment = [text |-> <<t.buf[1].id>>, attachments |-> <<t.buf[2].id>>]

\* C29 as stated: in the flush of a media group a failure notice is sent to
\* the user for every message that is skipped or whose file fails, and a
\* send_comment_in_pyrus that raises is followed by a notice as well
C29_GroupFailuresReported ==
  /\ [](\A t \in Flushing :
          \A j \in 1..(t.i - 1) : j \notin Kept(t) => t.buf[j].id \in t.notices)
  /\ [][\A t \in tasks : process_group_send(t, FALSE) => GoesOn(t)]_vars

\* the form for which handler h has a POST /tasks in flight (create_user_task
\* for the client form, create_appeal_task for the appeal form)
PostInFlight(h) ==
  CASE handler[h].pc = "create_user" -> "client"
    [] handler[h].pc \in {"create_appeal", "create_appeal_reg"} -> "appeal"
    [] OTHER -> "none"

\* C30 as stated, in what it says about one moment: the handlers of one
\* user never have two POST /tasks for the same form in flight (two such
\* requests are two tasks of that form for the user)
C30_OneTaskPerForm ==
  \A g, h \in Handlers :
     (g # h /\ handler[g].user = handler[h].user /\ PostInFlight(g) # "none")
        => PostInFlight(g) # PostInFlight(h)

\* the messages that are in a buffer or in the buffer a flush took, each
\* with the key of that buffer
Placed ==
  {p \in Keys \X (1..MaxMsgs) :
     \/ p[2] \in Ids(media_groups_data[p[1]])
     \/ \E j \in 1..Len(flushes) :
           flushes[j].key = p[1] /\ p[2] \in Ids(flushes[j].msgs)}
RECURSIVE SumLen(_)
SumLen(q) == IF q = << >> THEN 0 ELSE Len(Head(q).msgs) + SumLen(Tail(q))
\* the number of places, in the buffers and in the flushes, with a message
Places ==
  SumLen(flushes) + Len(media_groups_data["g1"]) + Len(media_groups_data["g2"])

\* C31: a message handed to process_media_group with a group id is put in
\* the buffer of that id and nowhere else; from there it goes to the one
\* flush that takes that buffer, and a buffer with a message always has a
\* timer that will take it.  So, at any time, every such message is at one
\* place only, under the key it came with, no step other than its arrival
\* adds a message to a buffer or a flush or takes one away, and the flushes
\* made so far stay as they are.
C31_EachMessageInOneFlush ==
  /\ [](/\ Cardinality(Placed) = Places
        /\ Cardinality({p[2] : p \in Placed}) = Places
        /\ \A k \in Keys : media_groups_data[k] # << >> => Sleeping(k) # {})
  /\ [][IF nmsg' = nmsg
        THEN (media_groups_data' # media_groups_data \/ flushes' # flushes)
                => Placed' = Placed
        ELSE \E k \in GroupIds :
                /\ Placed' = Placed \cup (IF k = "none" THEN {} ELSE {<<k, nmsg'>>})
                /\ \E kind \in MsgKinds : process_media_group(k, kind)]_vars
  /\ [][IsPrefix(flushes, flushes')]_vars

\* C31 witness: messages of two keys have been flushed, each by the flush
\* of its key, while a later message of the first key waits in its buffer
C31_Witness ==
  /\ Len(flushes) = 2
  /\ flushes[1].key # flushes[2].key
  /\ \E k \in Keys : k = flushes[1].key /\ media_groups_data[k] # << >>
  /\ Cardinality(Placed) = 3

\* the answers the model has for the auth endpoint are used up while the
\* worker waits for one
Unanswerable ==
  call[WSlot].pc = "rf_inflight" /\ issued = MaxTok /\ faults = MaxFaults

\* process_webhook has ended for event h
Processed(h) == ~InQueue(h) /\ h \notin inproc /\ outcome[h] # "none"

\* C32: while the worker runs, every event on the queue is eventually got
\* from it and its processing eventually ends, whatever happened to the
\* events before it (as long as the calls the worker awaits are answered);
\* the worker never stops.
C32_EveryEventProcessed ==
  /\ \A h \in Reqs : InQueue(h) ~> (Processed(h) \/ Unanswerable)
  /\ [](worker.pc # "dead")

\* C32 witness: the processing of an event ended with an exception
\* (api_request gave up), and an event that was behind it on the queue has
\* been processed too
C32_Witness ==
  \E i, j \in 1..Len(deq) :
     /\ i < j
     /\ outcome[deq[i]] = "raised"
     /\ Processed(deq[j])
     /\ ~Unanswerable

====
